---- MODULE Spec2Model ----
(***************************************************************************)
(* Model of the authorization decision engine of ev-server                 *)
(* (src/src/server/rest/v1/service/AuthorizationService.ts).               *)
(*                                                                         *)
(* Every public entry point of AuthorizationService is one action: the     *)
(* whole async method, with every call it awaits.  What a method does is   *)
(* computed by operators that follow the TypeScript statement by           *)
(* statement and thread an evaluation state                                *)
(*     [d, log, err, ret, rec]                                             *)
(* through it: d is the AuthorizationFilter object being mutated, log the  *)
(* sequence of calls made to collaborators (static table, filter factory,  *)
(* filters, storage), err the error the method raised ("none": it         *)
(* returned), ret its return value, rec the record being enriched.         *)
(***************************************************************************)
EXTENDS Integers, Sequences, FiniteSets, TLC

VARIABLES
    role,        \* userToken.role of the actor
    orgActive,   \* Utils.isTenantComponentActive(tenant, ORGANIZATION)
    table,       \* static permission table of the actor's role: <<entity, action>> -> grant
    storage,     \* storage contents: the lists the storage collaborators return
    request,     \* the filtered HTTP request being served
    decision,    \* the AuthorizationFilter object the caller holds after the last call
    outcome,     \* how the last call ended
    calls,       \* collaborator calls made by the last call, in order
    records,     \* the records handed to the last enrichment, with their flags
    firstRun,    \* what the first call of the behaviour was and how it ended
    inflight,    \* the list checks in progress, each suspended at one of its awaits
    billing      \* a StripeBillingIntegration instance and the Stripe account behind it

vars == <<role, orgActive, table, storage, request, decision, outcome, calls, records,
          firstRun, inflight, billing>>

(***************************************************************************)
(* Bounds of the model.                                                    *)
(***************************************************************************)
\* total number of filter references in one grant's AND-of-OR expression
MaxRefs == 3
\* number of characters of a pipe-delimited SiteID request string
MaxReqLen == 3
\* number of site assignments (assigned, site admin, site owner) of the actor
MaxScope == 2
\* number of asset IDs in a request / assigned to a site
MaxAssets == 2
\* number of records of an enriched collection
MaxRecords == 2

(***************************************************************************)
(* Small helpers.                                                          *)
(***************************************************************************)
Range(s) == {s[i] : i \in DOMAIN s}

\* Array.prototype.includes
Includes(s, x) == \E i \in DOMAIN s : s[i] = x

\* Utils.isEmptyArray: true of undefined/null and of an array of length 0.
\* An absent array is modelled as the empty sequence where the code only
\* ever tests it with isEmptyArray.
isEmptyArray(s) == Len(s) = 0

\* Array.prototype.filter with a membership predicate: keeps order and
\* multiplicity of s.
RECURSIVE FilterIncluded(_, _)
FilterIncluded(s, allowed) ==
    IF s = <<>> THEN <<>>
    ELSE IF Includes(allowed, Head(s))
         THEN <<Head(s)>> \o FilterIncluded(Tail(s), allowed)
         ELSE FilterIncluded(Tail(s), allowed)

\* the mutant of Uniq that keeps every occurrence
NotUniq(s) == s

\* _.uniq: first occurrence of every element, in order.
RECURSIVE Uniq(_)
Uniq(s) ==
    IF s = <<>> THEN <<>>
    ELSE LET r == Uniq(SubSeq(s, 1, Len(s) - 1))
         IN IF Includes(r, s[Len(s)]) THEN r ELSE Append(r, s[Len(s)])

\* sequences over S of length at most n
SeqsUpTo(S, n) == UNION {[1..k -> S] : k \in 0..n}

\* duplicate-free sequences over S of length at most n
InjSeqsUpTo(S, n) == {s \in SeqsUpTo(S, n) : \A i, j \in DOMAIN s : s[i] = s[j] => i = j}

(***************************************************************************)
(* Identifiers.  An ID is a string, modelled as its sequence of            *)
(* characters so that String.split can be computed.                        *)
(***************************************************************************)
ID(c) == <<c>>
\* the sites and assets in storage
SiteIDs == {ID("A"), ID("B")}
AssetIDs == {ID("A"), ID("B")}
\* the characters of a request's pipe-delimited lists: "C" names no site
Chars == {"B", "C", "|"}

\* String.prototype.split('|') on a non-empty string: the maximal runs between
\* separators, empty runs included ("A||B" -> ["A", "", "B"]).
RECURSIVE Split(_)
Split(str) ==
    IF str = <<>> THEN << <<>> >>
    ELSE LET rest == Split(Tail(str))
         IN IF Head(str) = "|"
            THEN << <<>> >> \o rest
            ELSE << <<Head(str)>> \o Head(rest) >> \o Tail(rest)

(***************************************************************************)
(* Roles, entities, actions.                                               *)
(***************************************************************************)
UserRole == {"ADMIN", "SUPER_ADMIN", "BASIC"}

\* the action argument of the assign/unassign checks
ServerAction == {"ADD_ASSET_TO_SITE_AREA", "REMOVE_ASSET_TO_SITE_AREA",
                 "ADD_CHARGING_STATIONS_TO_SITE_AREA",
                 "REMOVE_CHARGING_STATIONS_FROM_SITE_AREA",
                 "ADD_USERS_TO_SITE", "REMOVE_USERS_FROM_SITE"}


Entity == {"SITE", "SITES", "SITE_AREA", "SITE_AREAS", "USER", "USERS", "USERS_SITES",
           "TAG", "TAGS", "COMPANY", "COMPANIES", "CAR", "CARS", "CAR_CATALOG",
           "CAR_CATALOGS"}

Action == {"READ", "UPDATE", "DELETE", "CREATE", "LIST", "ASSIGN", "UNASSIGN",
           "EXPORT_OCPP_PARAMS", "GENERATE_QR", "IMPORT", "EXPORT", "SYNCHRONIZE",
           "ASSIGN_ASSETS_TO_SITE_AREA", "UNASSIGN_ASSETS_TO_SITE_AREA",
           "ASSIGN_CHARGING_STATIONS_TO_SITE_AREA",
           "UNASSIGN_CHARGING_STATIONS_TO_SITE_AREA"}

(***************************************************************************)
(* Static Permission Table (Authorizations.can and its canReadX variants). *)
(* A grant is {authorized, fields, filters}; filters is the AND-list of    *)
(* OR-groups that Authorizations.can leaves in authorizationContext.       *)
(* An element of the AND-list is an array of filter names or one bare      *)
(* filter name.                                                            *)
(***************************************************************************)
FilterNames == {"PassA", "DenyA", "Missing"}

StaticFields == <<ID("A"), ID("B")>>

ArrayGroup(items) == [array |-> TRUE, items |-> items]
BareGroup(f) == [array |-> FALSE, bare |-> f]

GroupSize(g) == IF g.array THEN Len(g.items) ELSE 1

GroupsUpTo(n) ==
    {ArrayGroup(s) : s \in UNION {[1..k -> FilterNames] : k \in 1..n}}
    \cup {BareGroup(f) : f \in FilterNames}

RECURSIVE FilterExprs(_)
FilterExprs(n) ==
    IF n = 0 THEN {<<>>}
    ELSE {<<>>} \cup UNION {{<<g>> \o rest : rest \in FilterExprs(n - GroupSize(g))}
                            : g \in GroupsUpTo(n)}

Grant(authorized, filters) ==
    [authorized |-> authorized, fields |-> StaticFields, filters |-> filters]

Grants == {Grant(a, e) : a \in BOOLEAN, e \in FilterExprs(MaxRefs)}

\* The table of the actor's role is kept as the grant of most pairs (rest) and
\* the grants of the pairs that differ from it (special).
UniformTable(g) == [rest |-> g, special |-> <<>>]

\* Authorizations.can(userToken, entity, action, authorizationContext)
Can(tbl, entity, action) ==
    IF <<entity, action>> \in DOMAIN tbl.special
    THEN tbl.special[<<entity, action>>]
    ELSE tbl.rest

(***************************************************************************)
(* Dynamic Filter Registry (DynamicAuthorizationFactory) and the filters.  *)
(* A filter's processFilter sets decision.authorized to its verdict and    *)
(* writes its contribution under its own key of decision.filters; the data *)
(* source it reads is looked up in the decision's dataSources map and      *)
(* loaded into it when absent.                                             *)
(***************************************************************************)
Registry ==
    [f \in FilterNames |->
        CASE f = "PassA" -> [impl |-> TRUE, pass |-> TRUE, key |-> "siteIDs",
                             value |-> <<ID("A")>>, source |-> "AssignedSites"]
          [] f = "DenyA" -> [impl |-> TRUE, pass |-> FALSE, key |-> "userIDs",
                             value |-> <<ID("C")>>, source |-> "AssignedSites"]
          [] OTHER       -> [impl |-> FALSE, pass |-> FALSE, key |-> "",
                             value |-> <<>>, source |-> ""]]

(***************************************************************************)
(* The AuthorizationFilter object (the decision).                          *)
(***************************************************************************)
NoFilters == <<>>

HasFilter(d, key) == key \in DOMAIN d.filters

\* authorizationFilters.filters[key] = value
SetFilter(d, key, value) == [d EXCEPT !.filters = (key :> value) @@ @]

\* authorizationFilters.filters.siteIDs read by isEmptyArray / includes
FilterOf(d, key) == IF HasFilter(d, key) THEN d.filters[key] ELSE <<>>

\* { filters: {}, dataSources: new Map(), projectFields, authorized }
NewDecision(mapId, authorized, projectFields) ==
    [authorized |-> authorized, filters |-> NoFilters,
     dataSources |-> [id |-> mapId, entries |-> {}],
     projectFields |-> projectFields]

\* a request object; an absent property is the empty string or array
Request(siteID, projectFields, assetIDs) ==
    [SiteID |-> siteID, ProjectFields |-> projectFields, assetIDs |-> assetIDs]
NoRequest == Request(<<>>, <<>>, <<>>)

\* one collaborator call: what was called (ev), on which filter, data source,
\* lookup or entity (name), for which action (static table lookups only), while
\* evaluating which AND-group (0: none), for which record (0: none), with
\* which dataSources map
Event(ev, name, action, group, rec, cache) ==
    [ev |-> ev, name |-> name, action |-> action, group |-> group, rec |-> rec,
     cache |-> cache]

\* the mutant of Start whose decision object keeps the filters of the decision
\* made before
StartOnLastFilters(d, rec) ==
    [d |-> [d EXCEPT !.filters = decision.filters], log |-> <<>>, err |-> "none",
     ret |-> FALSE, rec |-> rec]

\* evaluation state at the start of a method
Start(d, rec) == [d |-> d, log |-> <<>>, err |-> "none", ret |-> FALSE, rec |-> rec]

Log(st, ev, name, group) ==
    [st EXCEPT !.log = Append(@, Event(ev, name, "", group, st.rec, st.d.dataSources.id))]

LogCan(st, entity, action) ==
    [st EXCEPT !.log = Append(@, Event("can", entity, action, 0, st.rec, st.d.dataSources.id))]

\* throw new AppAuthError({ errorCode: HTTPAuthError.FORBIDDEN, ... })
Throw(st) == [st EXCEPT !.err = "AppAuthError"]


(***************************************************************************)
(* Filter Combinator.                                                      *)
(***************************************************************************)
\* DynamicAuthorizationFactory.getDynamicFilter(tenant, userToken, name,
\* dataSources): no filter for an unknown name; otherwise the filter, its data
\* source taken from dataSources or loaded from storage and put there.
getDynamicFilter(st, f, g) ==
    LET st1 == Log(st, "getDynamicFilter", f, g)
        src == Registry[f].source
    IN IF ~Registry[f].impl \/ src \in st1.d.dataSources.entries
       THEN st1
       ELSE [Log(st1, "load", src, g) EXCEPT !.d.dataSources.entries = @ \cup {src}]

\* dynamicFilter.processFilter(authorizationFilters, extraFilters)
processFilter(st, f, g, extraFilters) ==
    LET st1 == Log(st, "processFilter", f, g)
        d1  == SetFilter(st1.d, Registry[f].key, Registry[f].value)
    IN [st1 EXCEPT !.d = [d1 EXCEPT !.authorized = Registry[f].pass]]

\* the mutant of ProcessAlternatives that skips a filter the factory does not
\* know instead of throwing
RECURSIVE ProcessAlternativesSkipMissing(_, _, _, _, _)
ProcessAlternativesSkipMissing(r, alts, i, g, extraFilters) ==
    IF i > Len(alts) THEN r
    ELSE LET st1 == getDynamicFilter(r.st, alts[i], g)
         IN IF ~Registry[alts[i]].impl
            THEN ProcessAlternativesSkipMissing([r EXCEPT !.st = st1],
                                                alts, i + 1, g, extraFilters)
            ELSE LET st2 == processFilter(st1, alts[i], g, extraFilters)
                 IN ProcessAlternativesSkipMissing(
                        [st |-> st2, authorized |-> r.authorized \/ st2.d.authorized],
                        alts, i + 1, g, extraFilters)

\* the mutant of ProcessAlternatives that leaves the OR-group at the first
\* alternative that authorizes
RECURSIVE ProcessAlternativesShortCircuit(_, _, _, _, _)
ProcessAlternativesShortCircuit(r, alts, i, g, extraFilters) ==
    IF i > Len(alts) \/ r.authorized THEN r
    ELSE LET st1 == getDynamicFilter(r.st, alts[i], g)
         IN IF ~Registry[alts[i]].impl
            THEN [r EXCEPT !.st = Throw(st1)]
            ELSE LET st2 == processFilter(st1, alts[i], g, extraFilters)
                 IN ProcessAlternativesShortCircuit(
                        [st |-> st2, authorized |-> r.authorized \/ st2.d.authorized],
                        alts, i + 1, g, extraFilters)

\* the inner loop of processDynamicFilters (lines 799-814) from alternative i
\* on; r = [st, authorized], authorized being the local variable
RECURSIVE ProcessAlternatives(_, _, _, _, _)
ProcessAlternatives(r, alts, i, g, extraFilters) ==
    IF i > Len(alts) THEN r
    ELSE LET st1 == getDynamicFilter(r.st, alts[i], g)
         IN IF ~Registry[alts[i]].impl
            THEN [r EXCEPT !.st = Throw(st1)]
            ELSE LET st2 == processFilter(st1, alts[i], g, extraFilters)
                 IN ProcessAlternatives(
                        [st |-> st2, authorized |-> r.authorized \/ st2.d.authorized],
                        alts, i + 1, g, extraFilters)

\* the alternatives of one element of the AND-list: the array, or the bare
\* name as the only alternative
GroupAlts(group) == IF group.array THEN group.items ELSE <<group.bare>>

RECURSIVE ProcessGroups(_, _, _, _)
\* the mutant of EndGroup that goes on to the next AND-group after a group has
\* denied
EndGroupNoReturn(r, groups, g, extraFilters) ==
    IF r.st.err # "none" THEN r.st
    ELSE ProcessGroups([r.st EXCEPT !.d.authorized = r.authorized],
                       groups, g + 1, extraFilters)

\* the end of one iteration of the outer loop (lines 815-820): r is what the
\* inner loop left; the decision takes the group's result and a denying group
\* ends the method
EndGroup(r, groups, g, extraFilters) ==
    IF r.st.err # "none" THEN r.st
    ELSE IF ~r.authorized THEN [r.st EXCEPT !.d.authorized = r.authorized]
    ELSE ProcessGroups([r.st EXCEPT !.d.authorized = r.authorized],
                       groups, g + 1, extraFilters)

\* the outer loop of processDynamicFilters (lines 791-821) from AND-group g on
ProcessGroups(st, groups, g, extraFilters) ==
    IF g > Len(groups) THEN st
    ELSE EndGroup(ProcessAlternatives([st |-> [st EXCEPT !.d.authorized = FALSE],
                                       authorized |-> FALSE],
                                      GroupAlts(groups[g]), 1, g, extraFilters),
                  groups, g, extraFilters)

processDynamicFilters(st, filters, extraFilters) ==
    IF ~isEmptyArray(filters) THEN ProcessGroups(st, filters, 1, extraFilters) ELSE st

(***************************************************************************)
(* Field Projector.                                                        *)
(***************************************************************************)
\* UtilsService.httpFilterProjectToArray: the pipe-delimited list as an array,
\* nothing for an absent or empty string
httpFilterProjectToArray(httpProjectField) ==
    IF httpProjectField = <<>> THEN <<>> ELSE Split(httpProjectField)

\* the mutant of filterProjectFields that filters the requested list by the
\* static one
filterRequestedFields(authFields, httpProjectField) ==
    LET httpProjectFields == httpFilterProjectToArray(httpProjectField)
    IN IF ~isEmptyArray(httpProjectFields)
       THEN FilterIncluded(httpProjectFields, authFields)
       ELSE authFields

filterProjectFields(authFields, httpProjectField) ==
    LET httpProjectFields == httpFilterProjectToArray(httpProjectField)
    IN IF ~isEmptyArray(httpProjectFields)
       THEN FilterIncluded(authFields, httpProjectFields)
       ELSE authFields

(***************************************************************************)
(* canPerformAuthorizationAction (lines 825-841).                          *)
(***************************************************************************)
\* the mutant that keeps an authorization the decision already carried
canPerformKeepingAuthorized(st, tbl, entity, action, filteredRequest) ==
    LET authResult == Can(tbl, entity, action)
        st1 == [LogCan(st, entity, action) EXCEPT
                    !.d.authorized = @ \/ authResult.authorized]
    IN IF ~st1.d.authorized THEN [st1 EXCEPT !.ret = FALSE]
       ELSE LET st2 == processDynamicFilters(st1, authResult.filters, filteredRequest)
            IN IF st2.err # "none" THEN st2
               ELSE LET st3 == [st2 EXCEPT !.d.projectFields =
                                    filterProjectFields(authResult.fields,
                                                        filteredRequest.ProjectFields)]
                    IN [st3 EXCEPT !.ret = st3.d.authorized]

\* the mutant that raises the forbidden-access error on a static denial
canPerformThrowingOnDenial(st, tbl, entity, action, filteredRequest) ==
    LET authResult == Can(tbl, entity, action)
    IN IF ~authResult.authorized
       THEN Throw([LogCan(st, entity, action) EXCEPT !.d.authorized = FALSE])
       ELSE LET st2 == processDynamicFilters(
                           [LogCan(st, entity, action) EXCEPT !.d.authorized = TRUE],
                           authResult.filters, filteredRequest)
            IN IF st2.err # "none" THEN st2
               ELSE [st2 EXCEPT !.d.projectFields =
                                    filterProjectFields(authResult.fields,
                                                        filteredRequest.ProjectFields),
                                !.ret = st2.d.authorized]

\* lines 833-840: st2 is what processDynamicFilters left
EndCanPerform(st2, authResult, filteredRequest) ==
    IF st2.err # "none" THEN st2
    ELSE [st2 EXCEPT !.d.projectFields =
                         filterProjectFields(authResult.fields,
                                             filteredRequest.ProjectFields),
                     !.ret = st2.d.authorized]

canPerformAuthorizationAction(st, tbl, entity, action, filteredRequest) ==
    LET authResult == Can(tbl, entity, action)
    IN IF ~authResult.authorized
       THEN [LogCan(st, entity, action) EXCEPT !.d.authorized = authResult.authorized,
                                               !.ret = FALSE]
       ELSE EndCanPerform(
                processDynamicFilters(
                    [LogCan(st, entity, action) EXCEPT
                         !.d.authorized = authResult.authorized],
                    authResult.filters, filteredRequest),
                authResult, filteredRequest)


(***************************************************************************)
(* Entry points: the checks.  Each builds a new AuthorizationFilter with   *)
(* a new dataSources Map; mapId names that Map.                            *)
(***************************************************************************)
\* lines 110-122 (and the other list checks, which differ in entity only)
checkAndGetSitesAuthorizationFilters(mapId, tbl, filteredRequest) ==
    canPerformAuthorizationAction(Start(NewDecision(mapId, FALSE, <<>>), 0),
                                  tbl, "SITES", "LIST", filteredRequest)

\* lines 60-72
checkAndGetSiteAuthorizationFilters(mapId, tbl, filteredRequest, authAction) ==
    canPerformAuthorizationAction(Start(NewDecision(mapId, FALSE, <<>>), 0),
                                  tbl, "SITE", authAction, filteredRequest)

\* lines 294-322 (entity USER) and 419-447 (entity COMPANY)
checkAndGetReadAuthorizationFilters(mapId, tbl, entity, filteredRequest) ==
    LET authResult == Can(tbl, entity, "READ")
        st0 == LogCan(Start(NewDecision(mapId, FALSE, <<>>), 0), entity, "READ")
        st1 == [st0 EXCEPT !.d.authorized = authResult.authorized]
    IN IF ~st1.d.authorized THEN Throw(st1)
       ELSE LET st2 == processDynamicFilters(st1, authResult.filters, filteredRequest)
            IN IF st2.err # "none" THEN st2
               ELSE [st2 EXCEPT !.d.projectFields =
                         filterProjectFields(authResult.fields,
                                             filteredRequest.ProjectFields)]

checkAndGetUserAuthorizationFilters(mapId, tbl, filteredRequest) ==
    checkAndGetReadAuthorizationFilters(mapId, tbl, "USER", filteredRequest)

checkAndGetCompanyAuthorizationFilters(mapId, tbl, filteredRequest) ==
    checkAndGetReadAuthorizationFilters(mapId, tbl, "COMPANY", filteredRequest)

\* lines 213-227
checkAndAssignUserSitesAuthorizationFilters(mapId, tbl, userRole, action, filteredRequest) ==
    LET authAction == IF action = "ADD_USERS_TO_SITE" THEN "ASSIGN" ELSE "UNASSIGN"
    IN canPerformAuthorizationAction(
           Start(NewDecision(mapId, userRole = "ADMIN", <<>>), 0),
           tbl, "USERS_SITES", authAction, filteredRequest)

(***************************************************************************)
(* State machine.                                                          *)
(***************************************************************************)
\* the Map a "new Map()" yields: not the one of the decision the caller holds
NewMapId == (decision.dataSources.id % 2) + 1

\* failing: the storage lookups that fail when they are issued
NoStorage == [assignedSites |-> <<>>, adminSites |-> <<>>, ownerSites |-> <<>>,
              assets |-> <<>>, siteArea |-> [siteID |-> ID("A")], failing |-> {}]

Outcome(op, arg, st) == [op |-> op, arg |-> arg, err |-> st.err, ret |-> st.ret]

\* the method has run: the caller holds its decision object and its outcome
\* a call and what its caller can see of its end: error or return value and
\* the decision's authorized, filters and projectFields
Run(op, arg, st) ==
    [op |-> op, arg |-> arg, err |-> st.err, ret |-> st.ret,
     authorized |-> st.d.authorized, filters |-> st.d.filters,
     projectFields |-> st.d.projectFields]

\* no call is remembered, and none will be
NoRun == Run("off", "", Start(NewDecision(0, FALSE, <<>>), 0))

\* the first call of a behaviour that remembers it (firstRun.op = "none" until
\* then) is kept
Remember(op, arg, st) ==
    firstRun' = IF firstRun.op = "none" THEN Run(op, arg, st) ELSE firstRun

Finish(op, arg, st) ==
    /\ decision' = st.d
    /\ outcome' = Outcome(op, arg, st)
    /\ calls' = st.log
    /\ Remember(op, arg, st)
    /\ UNCHANGED <<role, orgActive, table, storage, request, inflight, billing>>

InitCommon ==
    /\ decision = NewDecision(0, FALSE, <<>>)
    /\ outcome = [op |-> "none", arg |-> "", err |-> "none", ret |-> FALSE]
    /\ calls = <<>>
    /\ records = <<>>
    /\ firstRun = NoRun
    /\ inflight = <<>>
    /\ billing = <<>>

\* every pair of the static table carries the same grant, any grant
Init ==
    /\ role \in {"ADMIN", "BASIC"}
    /\ orgActive = TRUE
    /\ \E g \in Grants : table = UniformTable(g)
    /\ storage = NoStorage
    /\ request = NoRequest
    /\ InitCommon

CheckAndGetSites ==
    /\ Finish("checkAndGetSitesAuthorizationFilters", "",
              checkAndGetSitesAuthorizationFilters(NewMapId, table, request))
    /\ UNCHANGED records

CheckAndGetSite ==
    \E authAction \in {"READ", "UPDATE"} :
        /\ Finish("checkAndGetSiteAuthorizationFilters", authAction,
                  checkAndGetSiteAuthorizationFilters(NewMapId, table, request, authAction))
        /\ UNCHANGED records

CheckAndGetUser ==
    /\ Finish("checkAndGetUserAuthorizationFilters", "",
              checkAndGetUserAuthorizationFilters(NewMapId, table, request))
    /\ UNCHANGED records

CheckAndGetCompany ==
    /\ Finish("checkAndGetCompanyAuthorizationFilters", "",
              checkAndGetCompanyAuthorizationFilters(NewMapId, table, request))
    /\ UNCHANGED records

CheckAndAssignUserSites ==
    \E action \in {"ADD_USERS_TO_SITE", "REMOVE_USERS_FROM_SITE"} :
        /\ Finish("checkAndAssignUserSitesAuthorizationFilters", action,
                  checkAndAssignUserSitesAuthorizationFilters(NewMapId, table, role,
                                                              action, request))
        /\ UNCHANGED records

Next ==
    \/ CheckAndGetSites
    \/ CheckAndGetSite
    \/ CheckAndGetUser
    \/ CheckAndGetCompany
    \/ CheckAndAssignUserSites

Spec == Init /\ [][Next]_vars


(***************************************************************************)
(* What the claims speak about.                                            *)
(***************************************************************************)
\* the static grant the last call looked up (its first collaborator call)
LastGrant == Can(table, calls[1].name, calls[1].action)

Alts(group) == IF group.array THEN group.items ELSE <<group.bare>>

\* the events of the last call that resolve, load for or invoke a filter
FilterEvents == {i \in DOMAIN calls : calls[i].ev \in {"getDynamicFilter", "load", "processFilter"}}

HasMissing(group) == \E i \in DOMAIN Alts(group) : ~Registry[Alts(group)[i]].impl

\* every alternative has an implementation and denies
GroupDenies(group) ==
    \A i \in DOMAIN Alts(group) : Registry[Alts(group)[i]].impl /\ ~Registry[Alts(group)[i]].pass

\* every alternative has an implementation and one of them passes
GroupPasses(group) ==
    /\ ~HasMissing(group)
    /\ \E i \in DOMAIN Alts(group) : Registry[Alts(group)[i]].pass

\* the methods that are canPerformAuthorizationAction on a new decision
CanPerformOps == {"checkAndGetSitesAuthorizationFilters",
                  "checkAndGetSiteAuthorizationFilters",
                  "checkAndAssignUserSitesAuthorizationFilters"}

SingleEntityOps == {"checkAndGetSiteAuthorizationFilters",
                    "checkAndGetUserAuthorizationFilters",
                    "checkAndGetCompanyAuthorizationFilters"}

CombinatorOps == CanPerformOps \cup SingleEntityOps

\* C1: when the static grant declares no dynamic filters,
\* canPerformAuthorizationAction returns the grant's authorized value and
\* leaves it in decision.authorized, whatever the decision carried before
\* (checkAndAssignUserSitesAuthorizationFilters starts an ADMIN's decision
\* with authorized = true).
C1_StaticOnlyGrantDecides ==
    (outcome.op \in CanPerformOps /\ isEmptyArray(LastGrant.filters))
        => /\ outcome.err = "none"
           /\ outcome.ret = LastGrant.authorized
           /\ decision.authorized = LastGrant.authorized

\* C1 witness: an ADMIN's decision, created authorized, ends denied by a
\* static grant that has no dynamic filters.
C1_Witness ==
    /\ outcome.op = "checkAndAssignUserSitesAuthorizationFilters"
    /\ role = "ADMIN"
    /\ isEmptyArray(LastGrant.filters)
    /\ ~LastGrant.authorized
    /\ ~decision.authorized /\ ~outcome.ret

\* C2: once the decision is denied no further filter is resolved or invoked:
\* no filter call at all under a denying static grant, and no filter call for
\* an AND-group that follows a group all of whose alternatives deny; the
\* call then ends with authorized = false.
C2_ShortCircuitOnDenial ==
    outcome.op \in CombinatorOps =>
        LET G == LastGrant.filters
        IN /\ ~LastGrant.authorized => FilterEvents = {}
           /\ \A g \in DOMAIN G :
                GroupDenies(G[g]) =>
                    /\ \A i \in FilterEvents : calls[i].group <= g
                    /\ (LastGrant.authorized /\ \A h \in 1..(g - 1) : ~HasMissing(G[h]))
                           => (outcome.err = "none" /\ ~decision.authorized)

\* C2 witness: the first AND-group denied, a second group is declared, and
\* only filters of the first group were called.
C2_Witness ==
    /\ outcome.op \in CombinatorOps
    /\ LastGrant.authorized
    /\ Len(LastGrant.filters) >= 2
    /\ GroupDenies(LastGrant.filters[1])
    /\ \E i \in FilterEvents : calls[i].ev = "processFilter"
    /\ \A i \in FilterEvents : calls[i].group = 1
    /\ ~decision.authorized

\* the filters resolved and invoked for AND-group g by the last call, in the
\* order of the calls, as <<call, filter name>>
GroupCalls(g) ==
    LET s == SelectSeq(calls, LAMBDA e : e.ev \in {"getDynamicFilter", "processFilter"}
                                         /\ e.group = g)
    IN [k \in DOMAIN s |-> <<s[k].ev, s[k].name>>]

\* every alternative resolved, then invoked, one after the other
EveryAlternative(alts) ==
    [k \in 1..(2 * Len(alts)) |->
        IF k % 2 = 1 THEN <<"getDynamicFilter", alts[(k + 1) \div 2]>>
        ELSE <<"processFilter", alts[k \div 2]>>]

\* the AND-groups the outer loop enters: those that follow passing groups only
ReachedGroups(G) == {g \in DOMAIN G : \A h \in 1..(g - 1) : GroupPasses(G[h])}

\* C16: under an authorizing static grant, in every AND-group the loop enters
\* and whose filters all exist, each alternative is resolved and invoked in
\* the declared order, also after one of them has authorized; where no
\* entered group names a missing filter the decision ends authorized exactly
\* when every group has an alternative that authorizes, whatever the last
\* alternative invoked left in decision.authorized.
C16_AndOfOrEvaluation ==
    (outcome.op \in CanPerformOps /\ LastGrant.authorized) =>
        LET G == LastGrant.filters
        IN /\ \A g \in ReachedGroups(G) :
                ~HasMissing(G[g]) => GroupCalls(g) = EveryAlternative(Alts(G[g]))
           /\ \A g \in DOMAIN G \ ReachedGroups(G) : GroupCalls(g) = <<>>
           /\ (\A g \in ReachedGroups(G) : ~HasMissing(G[g]))
                  => /\ decision.authorized = (\A g \in DOMAIN G : GroupPasses(G[g]))
                     /\ outcome.err = "none" => outcome.ret = decision.authorized

\* C16 witness: one OR-group whose first alternative authorizes and whose
\* second denies; both were invoked and the decision is authorized although
\* the last filter invoked left authorized = false.
C16_Witness ==
    /\ outcome.op \in CanPerformOps
    /\ LastGrant.authorized
    /\ Len(LastGrant.filters) = 1
    /\ Alts(LastGrant.filters[1]) = <<"PassA", "DenyA">>
    /\ GroupCalls(1) = EveryAlternative(<<"PassA", "DenyA">>)
    /\ decision.authorized /\ outcome.ret

\* C3 (as claimed): where the grant's expression is one OR-group of two
\* alternatives, the first denying and the second passing, the decision ends
\* authorized and decision.filters holds the second alternative's
\* contribution and nothing else.
C3_OnlySecondAlternativeRemains ==
    (/\ outcome.op \in CanPerformOps
     /\ LastGrant.authorized
     /\ Len(LastGrant.filters) = 1
     /\ Len(Alts(LastGrant.filters[1])) = 2
     /\ GroupDenies(ArrayGroup(<<Alts(LastGrant.filters[1])[1]>>))
     /\ Registry[Alts(LastGrant.filters[1])[2]].pass)
        => LET second == Registry[Alts(LastGrant.filters[1])[2]]
           IN /\ decision.authorized
              /\ decision.filters = (second.key :> second.value)


\* the first AND-group that names a filter without implementation (0: none)
FirstMissing(G) ==
    IF \E g \in DOMAIN G : HasMissing(G[g])
    THEN CHOOSE g \in DOMAIN G : HasMissing(G[g]) /\ \A h \in 1..(g - 1) : ~HasMissing(G[h])
    ELSE 0

\* C4 (as claimed): a statically authorized grant that declares a filter
\* reference without implementation, at whatever position of the AND-of-OR
\* expression, ends by raising the forbidden-access error.
C4_MissingFilterAlwaysRaises ==
    (outcome.op \in CombinatorOps /\ LastGrant.authorized
        /\ FirstMissing(LastGrant.filters) # 0)
        => outcome.err = "AppAuthError"

\* C4 (amended): the error is raised exactly when evaluation reaches the
\* unresolved reference, that is when every AND-group before its group has
\* authorized, whatever the reference's place inside its OR-group; when an
\* earlier group denies, the reference is never resolved and the decision ends
\* as a plain denial.
C4_MissingFilterRaisesWhenReached ==
    (outcome.op \in CombinatorOps /\ LastGrant.authorized
        /\ FirstMissing(LastGrant.filters) # 0)
        => LET G == LastGrant.filters
               m == FirstMissing(G)
           IN IF \A h \in 1..(m - 1) : GroupPasses(G[h])
              THEN /\ outcome.err = "AppAuthError"
                   /\ \E i \in DOMAIN calls :
                        /\ calls[i].ev = "getDynamicFilter"
                        /\ ~Registry[calls[i].name].impl
                        /\ calls[i].group = m
              ELSE /\ outcome.err = "none"
                   /\ ~decision.authorized
                   /\ \A i \in FilterEvents :
                        calls[i].ev = "getDynamicFilter" => Registry[calls[i].name].impl

\* C4 witness: the unresolved reference is the second alternative of a second
\* group, after an alternative that authorized, and the call raised.
C4_Witness ==
    /\ outcome.op \in CombinatorOps
    /\ LastGrant.authorized
    /\ FirstMissing(LastGrant.filters) = 2
    /\ LastGrant.filters[2].array
    /\ Len(LastGrant.filters[2].items) = 2
    /\ Registry[LastGrant.filters[2].items[1]].pass
    /\ ~Registry[LastGrant.filters[2].items[2]].impl
    /\ outcome.err = "AppAuthError"

\* C8 (as claimed): a single-entity check never returns normally a decision
\* with authorized = false.
C8_SingleEntityCheckThrowsOnDenial ==
    (outcome.op \in SingleEntityOps /\ outcome.err = "none") => decision.authorized


(***************************************************************************)
(* Scope Resolvers (lines 674-775) and the checks built on them.           *)
(***************************************************************************)
\* the mutant of Lookup that turns a failure of the storage into an empty result
LookupOrEmpty(st, sto, name, result) ==
    [st |-> Log(st, "storage", name, 0),
     result |-> IF name \in sto.failing THEN <<>> ELSE result]

\* await XStorage.getY(...): the ids of the result, or the storage's failure,
\* which nothing in the service catches
Lookup(st, sto, name, result) ==
    IF name \in sto.failing
    THEN [st |-> [Log(st, "storage", name, 0) EXCEPT !.err = "StorageError"],
          result |-> <<>>]
    ELSE [st |-> Log(st, "storage", name, 0), result |-> result]

\* getAssignedSiteIDs (lines 698-708): SiteStorage.getSites, mapped to ids
getAssignedSiteIDs(st, sto) == Lookup(st, sto, "getSites", sto.assignedSites)

\* getSiteAdminSiteIDs (lines 674-684): UserStorage.getUserSites {siteAdmin}
getSiteAdminSiteIDs(st, sto) == Lookup(st, sto, "getUserSites.siteAdmin", sto.adminSites)

\* getSiteOwnerSiteIDs (lines 686-696): UserStorage.getUserSites {siteOwner}
getSiteOwnerSiteIDs(st, sto) == Lookup(st, sto, "getUserSites.siteOwner", sto.ownerSites)

\* getAssignedAssetIDs (lines 710-721): AssetStorage.getAssets of the site
getAssignedAssetIDs(st, sto) == Lookup(st, sto, "getAssets", sto.assets)

\* the mutant of ForceSiteIDs that takes the requested IDs as they are
ForceRequestedSiteIDs(d, siteIDs, filteredRequest) ==
    LET d1 == IF ~isEmptyArray(siteIDs)
              THEN LET d0 == SetFilter(d, "siteIDs", siteIDs)
                   IN IF filteredRequest.SiteID # <<>>
                      THEN SetFilter(d0, "siteIDs", Split(filteredRequest.SiteID))
                      ELSE d0
              ELSE d
    IN IF ~isEmptyArray(FilterOf(d1, "siteIDs"))
       THEN [d1 EXCEPT !.authorized = TRUE]
       ELSE d1

\* lines 729-742 and 757-770: force the siteIDs filter to the scope, narrow it
\* to the requested IDs, authorize when it is not empty
ForceSiteIDs(d, siteIDs, filteredRequest) ==
    LET d1 == IF ~isEmptyArray(siteIDs)
              THEN LET d0 == SetFilter(d, "siteIDs", siteIDs)
                   IN IF filteredRequest.SiteID # <<>>
                      THEN SetFilter(d0, "siteIDs",
                                     FilterIncluded(Split(filteredRequest.SiteID),
                                                    d0.filters["siteIDs"]))
                      ELSE d0
              ELSE d
    IN IF ~isEmptyArray(FilterOf(d1, "siteIDs"))
       THEN [d1 EXCEPT !.authorized = TRUE]
       ELSE d1

\* the mutant of checkAssignedSites that scopes the actor to its assigned sites
\* whether or not the organization component is active
checkAssignedSitesAlwaysScoped(st, userRole, org, sto, filteredRequest) ==
    IF userRole # "ADMIN" /\ userRole # "SUPER_ADMIN"
    THEN LET got == getAssignedSiteIDs(st, sto)
         IN IF got.st.err # "none" THEN got.st
            ELSE [got.st EXCEPT !.d = ForceSiteIDs(got.st.d, got.result, filteredRequest)]
    ELSE st

\* lines 723-747
checkAssignedSites(st, userRole, org, sto, filteredRequest) ==
    IF userRole # "ADMIN" /\ userRole # "SUPER_ADMIN"
    THEN IF org
         THEN LET got == getAssignedSiteIDs(st, sto)
              IN IF got.st.err # "none" THEN got.st
                 ELSE [got.st EXCEPT !.d = ForceSiteIDs(got.st.d, got.result,
                                                        filteredRequest)]
         ELSE [st EXCEPT !.d.authorized = TRUE]
    ELSE st

\* lines 749-775
checkAssignedSiteAdminsAndOwners(st, userRole, org, sto, filteredRequest) ==
    IF userRole # "ADMIN" /\ userRole # "SUPER_ADMIN"
    THEN IF org
         THEN LET admin    == getSiteAdminSiteIDs(st, sto)
                  owner    == getSiteOwnerSiteIDs(admin.st, sto)
                  allSites == Uniq(admin.result \o owner.result)
              IN IF admin.st.err # "none" THEN admin.st
                 ELSE IF owner.st.err # "none" THEN owner.st
                 ELSE [owner.st EXCEPT !.d = ForceSiteIDs(owner.st.d, allSites,
                                                          filteredRequest)]
         ELSE [st EXCEPT !.d.authorized = TRUE]
    ELSE st

\* the project fields the charging station and user-sites checks start from
\* (lines 524-531, 143-145), three names standing for the lists
ChargingStationFields == <<ID("A"), ID("B"), ID("C")>>
UserSitesFields == <<ID("A"), ID("B"), ID("C")>>

\* lines 519-544; the call passes no request to checkAssignedSites
checkAndGetChargingStationAuthorizationFilters(mapId, userRole, org, sto, filteredRequest) ==
    LET d0  == NewDecision(mapId, userRole = "ADMIN", ChargingStationFields)
        st0 == Start([d0 EXCEPT !.projectFields =
                          filterProjectFields(d0.projectFields,
                                              filteredRequest.ProjectFields)], 0)
    IN IF userRole # "ADMIN"
       THEN checkAssignedSites(st0, userRole, org, sto, NoRequest)
       ELSE st0

\* lines 138-153; the call passes no request to checkAssignedSiteAdminsAndOwners
checkAndGetUserSitesAuthorizationFilters(mapId, userRole, org, sto, filteredRequest) ==
    LET d0  == NewDecision(mapId, userRole = "ADMIN", UserSitesFields)
        st0 == Start([d0 EXCEPT !.projectFields =
                          filterProjectFields(d0.projectFields,
                                              filteredRequest.ProjectFields)], 0)
    IN checkAssignedSiteAdminsAndOwners(st0, userRole, org, sto, NoRequest)

(***************************************************************************)
(* The scope checks as a state machine: an actor with at most MaxScope     *)
(* site assignments in storage, a request naming site IDs in a             *)
(* pipe-delimited string of at most MaxReqLen characters.                  *)
(***************************************************************************)
SiteLists == InjSeqsUpTo(SiteIDs, MaxScope)

InitScope ==
    /\ role \in UserRole
    /\ orgActive \in BOOLEAN
    /\ table = UniformTable(Grant(TRUE, <<>>))
    /\ \E assigned \in SiteLists, admin \in SiteLists, owner \in SiteLists :
        /\ Len(assigned) + Len(admin) + Len(owner) <= MaxScope
        /\ storage = [NoStorage EXCEPT !.assignedSites = assigned,
                                       !.adminSites = admin, !.ownerSites = owner]
    /\ \E siteID \in SeqsUpTo(Chars, MaxReqLen) : request = Request(siteID, <<>>, <<>>)
    /\ InitCommon

\* checkAssignedSites called with the request, on the decision the charging
\* station check builds for it
CheckAssignedSites ==
    /\ Finish("checkAssignedSites", "",
              checkAssignedSites(Start(NewDecision(NewMapId, role = "ADMIN", <<>>), 0),
                                 role, orgActive, storage, request))
    /\ UNCHANGED records

\* checkAssignedSiteAdminsAndOwners called with the request, on the decision
\* the user-sites check builds for it
CheckAssignedSiteAdminsAndOwners ==
    /\ Finish("checkAssignedSiteAdminsAndOwners", "",
              checkAssignedSiteAdminsAndOwners(
                  Start(NewDecision(NewMapId, role = "ADMIN", <<>>), 0),
                  role, orgActive, storage, request))
    /\ UNCHANGED records

CheckAndGetChargingStation ==
    /\ Finish("checkAndGetChargingStationAuthorizationFilters", "",
              checkAndGetChargingStationAuthorizationFilters(NewMapId, role, orgActive,
                                                             storage, request))
    /\ UNCHANGED records

CheckAndGetUserSites ==
    /\ Finish("checkAndGetUserSitesAuthorizationFilters", "",
              checkAndGetUserSitesAuthorizationFilters(NewMapId, role, orgActive,
                                                       storage, request))
    /\ UNCHANGED records

NextScope ==
    \/ CheckAssignedSites
    \/ CheckAssignedSiteAdminsAndOwners
    \/ CheckAndGetChargingStation
    \/ CheckAndGetUserSites

SpecScope == InitScope /\ [][NextScope]_vars

\* the storage lookups of the last call
StorageEvents == {i \in DOMAIN calls : calls[i].ev = "storage"}

AssignedSitesOps == {"checkAssignedSites", "checkAndGetChargingStationAuthorizationFilters"}
AdminsAndOwnersOps == {"checkAssignedSiteAdminsAndOwners",
                       "checkAndGetUserSitesAuthorizationFilters"}
\* the calls that hand the request's SiteID to the resolver
RequestedOps == {"checkAssignedSites", "checkAssignedSiteAdminsAndOwners"}

\* the scope the storage holds for the actor, for the resolver the last call used
ResolvedScope ==
    IF outcome.op \in AssignedSitesOps
    THEN Range(storage.assignedSites)
    ELSE Range(storage.adminSites) \cup Range(storage.ownerSites)

\* the site IDs a request names
RequestedSiteIDs == Range(Split(request.SiteID))

NonAdminScoped == role \notin {"ADMIN", "SUPER_ADMIN"} /\ orgActive

\* C5: for a non-admin actor with the organization component active the
\* siteIDs filter is a subset of the actor's resolved scope; when site IDs are
\* requested it is the scope intersected with the requested IDs; the decision
\* is authorized exactly when that filter is not empty (requesting only IDs
\* outside the scope gives authorized = false and an empty filter).
C5_IntersectionNeverWidens ==
    (outcome.op \in AssignedSitesOps \cup AdminsAndOwnersOps /\ NonAdminScoped)
        => LET siteIDs == Range(FilterOf(decision, "siteIDs"))
           IN /\ siteIDs \subseteq ResolvedScope
              /\ (outcome.op \in RequestedOps /\ request.SiteID # <<>>)
                    => siteIDs = ResolvedScope \cap RequestedSiteIDs
              /\ (outcome.op \notin RequestedOps \/ request.SiteID = <<>>)
                    => siteIDs = ResolvedScope
              /\ decision.authorized <=> siteIDs # {}

\* C5 witness: scope {A, B}, request "B|C", effective filter exactly [B].
C5_Witness ==
    /\ outcome.op = "checkAssignedSites"
    /\ NonAdminScoped
    /\ storage.assignedSites = <<ID("A"), ID("B")>>
    /\ request.SiteID = <<"B", "|", "C">>
    /\ decision.filters["siteIDs"] = <<ID("B")>>
    /\ decision.authorized

\* C20: with the organization component disabled, a non-admin actor gets from
\* checkAssignedSites and checkAssignedSiteAdminsAndOwners, and from the checks
\* built on them, a decision with authorized = true and no siteIDs filter, and
\* no storage lookup is made, whatever site IDs the request names and whatever
\* the actor is assigned to.
C20_OrganizationDisabledGrants ==
    (/\ outcome.op \in AssignedSitesOps \cup AdminsAndOwnersOps
     /\ ~orgActive
     /\ role \notin {"ADMIN", "SUPER_ADMIN"})
        => /\ outcome.err = "none"
           /\ decision.authorized
           /\ ~HasFilter(decision, "siteIDs")
           /\ StorageEvents = {}

\* C20 witness: organization disabled, a BASIC actor assigned to site A only
\* asks for site B through checkAssignedSites and is authorized without
\* filter or lookup.
C20_Witness ==
    /\ outcome.op = "checkAssignedSites"
    /\ ~orgActive
    /\ role = "BASIC"
    /\ storage.assignedSites = <<ID("A")>>
    /\ request.SiteID = <<"B">>
    /\ decision.authorized
    /\ ~HasFilter(decision, "siteIDs")
    /\ StorageEvents = {}

\* C10 (as claimed): with the organization component active, an actor whose
\* role is exempt from site scoping (ADMIN, SUPER_ADMIN: lines 725, 751) gets
\* from the site-scoped checks a decision with authorized = true, no siteIDs
\* filter and no storage lookup.
C10_AdminTierBypass ==
    (/\ outcome.op \in {"checkAndGetChargingStationAuthorizationFilters",
                        "checkAndGetUserSitesAuthorizationFilters"}
     /\ orgActive
     /\ role \in {"ADMIN", "SUPER_ADMIN"})
        => /\ decision.authorized
           /\ ~HasFilter(decision, "siteIDs")
           /\ StorageEvents = {}


(***************************************************************************)
(* Asset assignment check (lines 170-211).                                 *)
(***************************************************************************)
\* the body of the for loop (lines 190-203) for one asset ID: whether it sets
\* foundInvalidAssetID
InvalidAssetID(action, assetIDs, assetID) ==
    CASE action = "ADD_CHARGING_STATIONS_TO_SITE_AREA" -> Includes(assetIDs, assetID)
      [] action = "REMOVE_CHARGING_STATIONS_FROM_SITE_AREA" -> ~Includes(assetIDs, assetID)
      [] OTHER -> FALSE

\* the mutant of checkAssignSiteAreaAssetsAuthorizationFilters that checks the
\* assets without the test on the site admin's sites
checkAssetsOfAnySite(mapId, action, userRole, sto, siteArea, req) ==
    LET st0 == Start(NewDecision(mapId, userRole = "ADMIN", <<>>), 0)
    IN IF userRole # "ADMIN"
       THEN LET admin == getSiteAdminSiteIDs(st0, sto)
            IN IF admin.st.err # "none" THEN admin.st
               ELSE IF ~isEmptyArray(req.assetIDs)
                    THEN LET assets == getAssignedAssetIDs(admin.st, sto)
                             foundInvalidAssetID ==
                                 \E i \in DOMAIN req.assetIDs :
                                     InvalidAssetID(action, assets.result,
                                                    req.assetIDs[i])
                         IN IF assets.st.err # "none" THEN assets.st
                            ELSE IF ~foundInvalidAssetID
                            THEN [assets.st EXCEPT !.d.authorized = TRUE]
                            ELSE assets.st
                    ELSE admin.st
       ELSE st0

\* the mutant of checkAssignSiteAreaAssetsAuthorizationFilters that looks the
\* assets up and authorizes also when the request names no asset
checkAssetsOfEmptyRequest(mapId, action, userRole, sto, siteArea, req) ==
    LET st0 == Start(NewDecision(mapId, userRole = "ADMIN", <<>>), 0)
    IN IF userRole # "ADMIN"
       THEN LET admin == getSiteAdminSiteIDs(st0, sto)
            IN IF admin.st.err # "none" THEN admin.st
               ELSE IF ~isEmptyArray(admin.result) /\ Includes(admin.result, siteArea.siteID)
               THEN LET assets == getAssignedAssetIDs(admin.st, sto)
                        foundInvalidAssetID ==
                            \E i \in DOMAIN req.assetIDs :
                                InvalidAssetID(action, assets.result, req.assetIDs[i])
                    IN IF assets.st.err # "none" THEN assets.st
                       ELSE IF ~foundInvalidAssetID
                       THEN [assets.st EXCEPT !.d.authorized = TRUE]
                       ELSE assets.st
               ELSE admin.st
       ELSE st0

checkAssignSiteAreaAssetsAuthorizationFilters(mapId, action, userRole, sto, siteArea, req) ==
    LET st0 == Start(NewDecision(mapId, userRole = "ADMIN", <<>>), 0)
    IN IF userRole # "ADMIN"
       THEN LET admin == getSiteAdminSiteIDs(st0, sto)
            IN IF admin.st.err # "none" THEN admin.st
               ELSE IF ~isEmptyArray(admin.result) /\ Includes(admin.result, siteArea.siteID)
               THEN IF ~isEmptyArray(req.assetIDs)
                    THEN LET assets == getAssignedAssetIDs(admin.st, sto)
                             foundInvalidAssetID ==
                                 \E i \in DOMAIN req.assetIDs :
                                     InvalidAssetID(action, assets.result,
                                                    req.assetIDs[i])
                         IN IF assets.st.err # "none" THEN assets.st
                            ELSE IF ~foundInvalidAssetID
                            THEN [assets.st EXCEPT !.d.authorized = TRUE]
                            ELSE assets.st
                    ELSE admin.st
               ELSE admin.st
       ELSE st0

\* an actor, a site area of a site, the assets assigned to that site (at most
\* MaxAssets) and a request naming at most MaxAssets asset IDs
InitAssets ==
    /\ role \in UserRole
    /\ orgActive = TRUE
    /\ table = UniformTable(Grant(TRUE, <<>>))
    /\ \E admin \in SiteLists, siteID \in SiteIDs, assets \in InjSeqsUpTo(AssetIDs, MaxAssets) :
        storage = [NoStorage EXCEPT !.adminSites = admin, !.assets = assets,
                                    !.siteArea = [siteID |-> siteID]]
    /\ \E assetIDs \in SeqsUpTo(AssetIDs, MaxAssets) : request = Request(<<>>, <<>>, assetIDs)
    /\ InitCommon

CheckAssignSiteAreaAssets ==
    \E action \in {"ADD_ASSET_TO_SITE_AREA", "REMOVE_ASSET_TO_SITE_AREA",
                   "ADD_CHARGING_STATIONS_TO_SITE_AREA",
                   "REMOVE_CHARGING_STATIONS_FROM_SITE_AREA"} :
        /\ Finish("checkAssignSiteAreaAssetsAuthorizationFilters", action,
                  checkAssignSiteAreaAssetsAuthorizationFilters(
                      NewMapId, action, role, storage, storage.siteArea, request))
        /\ UNCHANGED records

NextAssets == CheckAssignSiteAreaAssets

SpecAssets == InitAssets /\ [][NextAssets]_vars

\* C7 (as claimed): for a non-admin site admin of the site area's site, a
\* request to add assets that names an asset already assigned to the site is
\* denied as a whole, and a request to remove assets that names an asset not
\* assigned to the site is denied as a whole.
C7_AssetBatchAllOrNothing ==
    (/\ outcome.op = "checkAssignSiteAreaAssetsAuthorizationFilters"
     /\ role # "ADMIN"
     /\ Includes(storage.adminSites, storage.siteArea.siteID))
        => /\ (/\ outcome.arg = "ADD_ASSET_TO_SITE_AREA"
               /\ Range(request.assetIDs) \cap Range(storage.assets) # {})
                  => ~decision.authorized
           /\ (/\ outcome.arg = "REMOVE_ASSET_TO_SITE_AREA"
               /\ Range(request.assetIDs) \ Range(storage.assets) # {})
                  => ~decision.authorized


(***************************************************************************)
(* Enrichment (addXAuthorizations, addXsAuthorizations).  A record is      *)
(* {id, issuer, siteID, flags}; flags holds the can* properties that have  *)
(* been assigned, a property never assigned is undefined.  A collection is *)
(* {entity, flags, result}.                                                *)
(***************************************************************************)
SetFlag(o, flag, value) == [o EXCEPT !.flags = (flag :> value) @@ @]

HasFlag(o, flag) == flag \in DOMAIN o.flags

\* the literal assignments of a non-issuer branch, in order
RECURSIVE SetFlags(_, _, _)
SetFlags(o, pairs, i) ==
    IF i > Len(pairs) THEN o
    ELSE SetFlags(SetFlag(o, pairs[i][1], pairs[i][2]), pairs, i + 1)

\* the extra parameters of a per-record decision, e.g. { UserID: user.id }
ExtraFilters(key, id) == (key :> id) @@ NoRequest

\* o.flag = await canPerformAuthorizationAction(..., entity, action,
\* authorizationFilter, params), one after the other; an exception ends the
\* sequence with the flags assigned so far
RECURSIVE SetFlagsFrom(_, _, _, _, _, _)
\* the assignment of the value the i-th decision returned in st1
AssignFlag(st1, tbl, o, specs, i, params) ==
    IF st1.err # "none" THEN [st |-> st1, o |-> o]
    ELSE SetFlagsFrom(Log(st1, "assign", specs[i][1], 0), tbl,
                      SetFlag(o, specs[i][1], st1.ret), specs, i + 1, params)

SetFlagsFrom(st, tbl, o, specs, i, params) ==
    IF i > Len(specs) THEN [st |-> st, o |-> o]
    ELSE AssignFlag(canPerformAuthorizationAction(st, tbl, specs[i][2], specs[i][3], params),
                    tbl, o, specs, i, params)

\* lines 84-108
addSiteAuthorizations(st, tbl, site) ==
    IF ~site.issuer
    THEN [st |-> st,
          o |-> SetFlags(site, <<<<"canRead", TRUE>>, <<"canUpdate", FALSE>>,
                                 <<"canDelete", FALSE>>, <<"canAssignUsers", FALSE>>,
                                 <<"canUnassignUsers", FALSE>>>>, 1)]
    ELSE SetFlagsFrom(st, tbl, site,
                      <<<<"canRead", "SITE", "READ">>,
                        <<"canDelete", "SITE", "DELETE">>,
                        <<"canUpdate", "SITE", "UPDATE">>,
                        <<"canExportOCPPParams", "SITE_AREA", "EXPORT_OCPP_PARAMS">>,
                        <<"canGenerateQrCode", "SITE_AREA", "GENERATE_QR">>,
                        <<"canAssignUsers", "USERS_SITES", "ASSIGN">>,
                        <<"canUnassignUsers", "USERS_SITES", "UNASSIGN">>>>, 1,
                      [NoRequest EXCEPT !.SiteID = site.id])

\* the mutant of addUserAuthorizations that takes the three decisions whatever
\* user.issuer is
addUserAuthorizationsOfAnyIssuer(st, tbl, user) ==
    SetFlagsFrom(st, tbl, user,
                 <<<<"canRead", "USER", "READ">>,
                   <<"canUpdate", "USER", "UPDATE">>,
                   <<"canDelete", "USER", "DELETE">>>>, 1,
                 ExtraFilters("UserID", user.id))

\* lines 250-264
addUserAuthorizations(st, tbl, user) ==
    IF ~user.issuer
    THEN [st |-> st,
          o |-> SetFlags(user, <<<<"canRead", TRUE>>, <<"canUpdate", FALSE>>,
                                 <<"canDelete", FALSE>>>>, 1)]
    ELSE SetFlagsFrom(st, tbl, user,
                      <<<<"canRead", "USER", "READ">>,
                        <<"canUpdate", "USER", "UPDATE">>,
                        <<"canDelete", "USER", "DELETE">>>>, 1,
                      ExtraFilters("UserID", user.id))

\* lines 363-377: the assignment of canUpdate in the non-issuer branch is
\* commented out in the source
addTagAuthorizations(st, tbl, tag) ==
    IF ~tag.issuer
    THEN [st |-> st,
          o |-> SetFlags(tag, <<<<"canRead", TRUE>>, <<"canDelete", FALSE>>>>, 1)]
    ELSE SetFlagsFrom(st, tbl, tag,
                      <<<<"canRead", "TAG", "READ">>,
                        <<"canDelete", "TAG", "DELETE">>,
                        <<"canUpdate", "TAG", "UPDATE">>>>, 1,
                      ExtraFilters("TagID", tag.id))

\* lines 403-417
addCompanyAuthorizations(st, tbl, company) ==
    IF ~company.issuer
    THEN [st |-> st,
          o |-> SetFlags(company, <<<<"canRead", TRUE>>, <<"canUpdate", FALSE>>,
                                    <<"canDelete", FALSE>>>>, 1)]
    ELSE SetFlagsFrom(st, tbl, company,
                      <<<<"canRead", "COMPANY", "READ">>,
                        <<"canDelete", "COMPANY", "DELETE">>,
                        <<"canUpdate", "COMPANY", "UPDATE">>>>, 1,
                      ExtraFilters("CompanyID", company.id))

\* lines 486-517: canUpdate is assigned from Action.DELETE and canDelete from
\* Action.UPDATE
addSiteAreaAuthorizations(st, tbl, siteArea) ==
    IF ~siteArea.issuer
    THEN [st |-> st,
          o |-> SetFlags(siteArea,
                         <<<<"canRead", TRUE>>, <<"canUpdate", FALSE>>,
                           <<"canDelete", FALSE>>, <<"canAssignAssets", FALSE>>,
                           <<"canUnassignAssets", FALSE>>,
                           <<"canAssignChargingStations", FALSE>>,
                           <<"canUnassignChargingStations", FALSE>>>>, 1)]
    ELSE SetFlagsFrom(st, tbl, siteArea,
                      <<<<"canRead", "SITE_AREA", "READ">>,
                        <<"canUpdate", "SITE_AREA", "DELETE">>,
                        <<"canDelete", "SITE_AREA", "UPDATE">>,
                        <<"canAssignAssets", "SITE_AREA", "ASSIGN_ASSETS_TO_SITE_AREA">>,
                        <<"canUnassignAssets", "SITE_AREA", "UNASSIGN_ASSETS_TO_SITE_AREA">>,
                        <<"canAssignChargingStations", "SITE_AREA",
                          "ASSIGN_CHARGING_STATIONS_TO_SITE_AREA">>,
                        <<"canUnassignChargingStations", "SITE_AREA",
                          "UNASSIGN_CHARGING_STATIONS_TO_SITE_AREA">>,
                        <<"canExportOCPPParams", "SITE_AREA", "EXPORT_OCPP_PARAMS">>,
                        <<"canGenerateQrCode", "SITE_AREA", "GENERATE_QR">>>>, 1,
                      [ExtraFilters("SiteAreaID", siteArea.id) EXCEPT
                           !.SiteID = siteArea.siteID])

\* lines 581-595: the test is (!car), and a record is never null, so the
\* branch taken is the else branch whatever car.issuer is
addCarAuthorizations(st, tbl, car) ==
    SetFlagsFrom(st, tbl, car,
                 <<<<"canRead", "CAR", "READ">>,
                   <<"canDelete", "CAR", "DELETE">>,
                   <<"canUpdate", "CAR", "UPDATE">>>>, 1,
                 ExtraFilters("CarID", car.id))

\* lines 630-644: the test is (!carCatalog); the decisions are taken on
\* Entity.CAR
addCarCatalogAuthorizations(st, tbl, carCatalog) ==
    SetFlagsFrom(st, tbl, carCatalog,
                 <<<<"canRead", "CAR", "READ">>,
                   <<"canDelete", "CAR", "DELETE">>,
                   <<"canUpdate", "CAR", "UPDATE">>>>, 1,
                 ExtraFilters("CarCatalogID", carCatalog.id))


\* the addXAuthorizations of an entity type
addAuthorizations(entity, st, tbl, x) ==
    CASE entity = "SITE" -> addSiteAuthorizations(st, tbl, x)
      [] entity = "SITE_AREA" -> addSiteAreaAuthorizations(st, tbl, x)
      [] entity = "USER" -> addUserAuthorizations(st, tbl, x)
      [] entity = "TAG" -> addTagAuthorizations(st, tbl, x)
      [] entity = "COMPANY" -> addCompanyAuthorizations(st, tbl, x)
      [] entity = "CAR" -> addCarAuthorizations(st, tbl, x)
      [] entity = "CAR_CATALOG" -> addCarCatalogAuthorizations(st, tbl, x)

\* for (const x of xs.result) { await addXAuthorizations(..., x, authorizationFilter) }
\* every iteration is handed the same authorizationFilter object; an exception
\* ends the loop
RECURSIVE ForEach(_, _, _, _, _)
\* the i-th record has been enriched into x.o
Iterate(entity, x, tbl, xs, i) ==
    ForEach(entity, x.st, tbl, [xs EXCEPT !.result[i] = x.o], i + 1)

ForEach(entity, st, tbl, xs, i) ==
    IF i > Len(xs.result) \/ st.err # "none" THEN [st |-> st, o |-> xs]
    ELSE Iterate(entity,
                 addAuthorizations(entity, [st EXCEPT !.rec = i], tbl, xs.result[i]),
                 tbl, xs, i)

\* the loop, on the collection root.o whose root flags have been assigned
Loop(entity, root, tbl) == ForEach(entity, root.st, tbl, root.o, 1)

\* the flags of the root from rootSpecs, then the loop
AddAll(entity, st, tbl, xs, rootSpecs) ==
    Loop(entity, SetFlagsFrom(st, tbl, xs, rootSpecs, 1, NoRequest), tbl)

\* lines 74-82
addSitesAuthorizations(st, tbl, sites) ==
    AddAll("SITE", st, tbl, sites, <<<<"canCreate", "SITE", "CREATE">>>>)

\* lines 243-248
addUsersAuthorizations(st, tbl, users) ==
    AddAll("USER", st, tbl, users, <<>>)

\* lines 351-361
addTagsAuthorizations(st, tbl, tags) ==
    AddAll("TAG", st, tbl, tags,
           <<<<"canCreate", "TAG", "CREATE">>, <<"canDelete", "TAG", "DELETE">>,
             <<"canImport", "TAGS", "IMPORT">>, <<"canExport", "TAGS", "EXPORT">>>>)

\* lines 393-401
addCompaniesAuthorizations(st, tbl, companies) ==
    AddAll("COMPANY", st, tbl, companies,
           <<<<"canCreate", "COMPANY", "CREATE">>>>)

\* lines 476-484
addSiteAreasAuthorizations(st, tbl, siteAreas) ==
    AddAll("SITE_AREA", st, tbl, siteAreas,
           <<<<"canCreate", "SITE_AREA", "CREATE">>>>)

\* lines 572-579
addCarsAuthorizations(st, tbl, cars) ==
    AddAll("CAR", st, tbl, cars, <<<<"canCreate", "CAR", "CREATE">>>>)

\* lines 624-628
addCarCatalogsAuthorizationActions(st, tbl, carCatalogs) ==
    SetFlagsFrom(st, tbl, carCatalogs,
                 <<<<"canSync", "CAR_CATALOGS", "SYNCHRONIZE">>>>, 1, NoRequest)

\* the list checks (lines 110-122, 266-278, 324-336, 379-391, 462-474, 546-557,
\* 597-609): a new decision, then canPerformAuthorizationAction on the list
\* entity with Action.LIST
checkAndGetListAuthorizationFilters(mapId, tbl, listEntity, filteredRequest) ==
    canPerformAuthorizationAction(Start(NewDecision(mapId, FALSE, <<>>), 0),
                                  tbl, listEntity, "LIST", filteredRequest)

EnrichedEntities == {"SITE", "SITE_AREA", "USER", "TAG", "COMPANY", "CAR", "CAR_CATALOG"}

ListEntity(entity) ==
    CASE entity = "SITE" -> "SITES"
      [] entity = "SITE_AREA" -> "SITE_AREAS"
      [] entity = "USER" -> "USERS"
      [] entity = "TAG" -> "TAGS"
      [] entity = "COMPANY" -> "COMPANIES"
      [] entity = "CAR" -> "CARS"
      [] entity = "CAR_CATALOG" -> "CAR_CATALOGS"

RecordNames == <<"A", "B", "C", "D">>

\* a record as the storage returns it: no can* property assigned
Record(i, issuer) ==
    [id |-> ID(RecordNames[i]), issuer |-> issuer, siteID |-> ID("A"), flags |-> <<>>]

DataResult(entity, issuers) ==
    [entity |-> entity, flags |-> <<>>,
     result |-> [i \in DOMAIN issuers |-> Record(i, issuers[i])]]

\* the grants the table of an enrichment run is drawn from
EnrichGrants == {Grant(FALSE, <<>>), Grant(TRUE, <<>>),
                 Grant(TRUE, <<ArrayGroup(<<"PassA">>)>>),
                 Grant(TRUE, <<ArrayGroup(<<"DenyA">>)>>),
                 Grant(TRUE, <<ArrayGroup(<<"Missing">>)>>)}

\* the grants of the pairs outside the enriched entity's READ, UPDATE, DELETE
RestGrants == {Grant(FALSE, <<>>), Grant(TRUE, <<ArrayGroup(<<"PassA">>)>>),
               Grant(TRUE, <<ArrayGroup(<<"DenyA">>)>>)}

\* a collection of at most MaxRecords records of one entity type, each issuer
\* or not, and a table whose READ, UPDATE and DELETE grants on that entity type
\* are any of EnrichGrants
InitEnrich ==
    /\ role = "BASIC"
    /\ orgActive = TRUE
    /\ storage = NoStorage
    /\ request = NoRequest
    /\ decision = NewDecision(0, FALSE, <<>>)
    /\ outcome = [op |-> "none", arg |-> "", err |-> "none", ret |-> FALSE]
    /\ calls = <<>>
    /\ firstRun = NoRun
    /\ inflight = <<>>
    /\ billing = <<>>
    /\ \E entity \in EnrichedEntities, issuers \in SeqsUpTo(BOOLEAN, MaxRecords) :
        /\ records = DataResult(entity, issuers)
        /\ \E rest \in RestGrants,
              special \in [{<<entity, a>> : a \in {"READ", "UPDATE", "DELETE"}}
                             -> EnrichGrants] :
            table = [rest |-> rest, special |-> special]

\* the enrichment has run on the decision the caller holds
FinishEnrich(op, x) ==
    /\ decision' = x.st.d
    /\ outcome' = Outcome(op, records.entity, x.st)
    /\ calls' = x.st.log
    /\ records' = x.o
    /\ Remember(op, records.entity, x.st)
    /\ UNCHANGED <<role, orgActive, table, storage, request, inflight, billing>>

Listed == outcome.op = "checkAndGetListAuthorizationFilters" /\ outcome.err = "none"

CheckAndGetList ==
    /\ outcome.op \in {"none", "checkAndGetListAuthorizationFilters"}
    /\ Finish("checkAndGetListAuthorizationFilters", ListEntity(records.entity),
              checkAndGetListAuthorizationFilters(NewMapId, table,
                                                  ListEntity(records.entity), request))
    /\ UNCHANGED records

AddSitesAuthorizations ==
    /\ Listed /\ records.entity = "SITE"
    /\ FinishEnrich("addSitesAuthorizations",
                    addSitesAuthorizations(Start(decision, 0), table, records))

AddSiteAreasAuthorizations ==
    /\ Listed /\ records.entity = "SITE_AREA"
    /\ FinishEnrich("addSiteAreasAuthorizations",
                    addSiteAreasAuthorizations(Start(decision, 0), table, records))

AddUsersAuthorizations ==
    /\ Listed /\ records.entity = "USER"
    /\ FinishEnrich("addUsersAuthorizations",
                    addUsersAuthorizations(Start(decision, 0), table, records))

AddTagsAuthorizations ==
    /\ Listed /\ records.entity = "TAG"
    /\ FinishEnrich("addTagsAuthorizations",
                    addTagsAuthorizations(Start(decision, 0), table, records))

AddCompaniesAuthorizations ==
    /\ Listed /\ records.entity = "COMPANY"
    /\ FinishEnrich("addCompaniesAuthorizations",
                    addCompaniesAuthorizations(Start(decision, 0), table, records))

AddCarsAuthorizations ==
    /\ Listed /\ records.entity = "CAR"
    /\ FinishEnrich("addCarsAuthorizations",
                    addCarsAuthorizations(Start(decision, 0), table, records))

AddCarCatalogsAuthorizationActions ==
    /\ Listed /\ records.entity = "CAR_CATALOG"
    /\ FinishEnrich("addCarCatalogsAuthorizationActions",
                    addCarCatalogsAuthorizationActions(Start(decision, 0), table, records))

\* the caller enriches one car catalog of the result
AddCarCatalogAuthorizations ==
    /\ records.entity = "CAR_CATALOG"
    /\ Listed \/ (outcome.op = "addCarCatalogsAuthorizationActions" /\ outcome.err = "none")
    /\ \E i \in DOMAIN records.result :
        LET x == addCarCatalogAuthorizations(Start(decision, i), table, records.result[i])
        IN FinishEnrich("addCarCatalogAuthorizations",
                        [st |-> x.st, o |-> [records EXCEPT !.result[i] = x.o]])

NextEnrich ==
    \/ CheckAndGetList
    \/ AddSitesAuthorizations
    \/ AddSiteAreasAuthorizations
    \/ AddUsersAuthorizations
    \/ AddTagsAuthorizations
    \/ AddCompaniesAuthorizations
    \/ AddCarsAuthorizations
    \/ AddCarCatalogsAuthorizationActions
    \/ AddCarCatalogAuthorizations

SpecEnrich == InitEnrich /\ [][NextEnrich]_vars

EnrichOps == {"addSitesAuthorizations", "addSiteAreasAuthorizations",
              "addUsersAuthorizations", "addTagsAuthorizations",
              "addCompaniesAuthorizations", "addCarsAuthorizations",
              "addCarCatalogAuthorizations"}

MutationFlags == {"canUpdate", "canDelete", "canAssignUsers", "canUnassignUsers",
                  "canAssignAssets", "canUnassignAssets", "canAssignChargingStations",
                  "canUnassignChargingStations"}

\* the mutation and assignment flags the enrichment of an entity type knows
FlagsOf(entity) ==
    {"canUpdate", "canDelete"}
    \cup (IF entity = "SITE" THEN {"canAssignUsers", "canUnassignUsers"} ELSE {})
    \cup (IF entity = "SITE_AREA"
          THEN {"canAssignAssets", "canUnassignAssets", "canAssignChargingStations",
                "canUnassignChargingStations"}
          ELSE {})

\* the records the last enrichment went through
Enriched ==
    IF outcome.op = "addCarCatalogAuthorizations"
    THEN {i \in DOMAIN records.result : HasFlag(records.result[i], "canRead")}
    ELSE IF outcome.op \in EnrichOps /\ outcome.err = "none" THEN DOMAIN records.result
    ELSE {}

\* C6 (as claimed): after enrichment a record with issuer = false has canRead =
\* true and every mutation or assignment flag of its entity type equal to
\* false, whatever the table grants.
C6_NonIssuerShortCircuit ==
    \A i \in Enriched :
        LET r == records.result[i]
        IN ~r.issuer =>
               /\ HasFlag(r, "canRead") /\ r.flags["canRead"]
               /\ \A f \in FlagsOf(records.entity) : HasFlag(r, f) /\ ~r.flags[f]

\* the events of the last enrichment that consult or populate a dataSources Map
CacheEvents == {i \in DOMAIN calls : calls[i].ev \in {"getDynamicFilter", "load"}}

\* C9 (as claimed): while a collection is enriched, the dataSources Map that the
\* decisions of one record consult is never the Map that the decisions of
\* another record of the collection consulted or populated.
C9_NoCrossRecordCache ==
    outcome.op \in EnrichOps =>
        \A i, j \in CacheEvents :
            (calls[i].rec # 0 /\ calls[j].rec # 0 /\ calls[i].rec # calls[j].rec)
                => calls[i].cache # calls[j].cache

(***************************************************************************)
(* Field projection as a state machine: a static grant whose field list    *)
(* holds at most MaxFields names, a request whose ProjectFields is a       *)
(* pipe-delimited string of at most MaxReqLen characters.                  *)
(***************************************************************************)
MaxFields == 3

FieldNames == {ID("A"), ID("B"), ID("C")}

InitProject ==
    /\ role \in {"ADMIN", "BASIC"}
    /\ orgActive = TRUE
    /\ \E authorized \in BOOLEAN, fields \in InjSeqsUpTo(FieldNames, MaxFields) :
        table = UniformTable([Grant(authorized, <<>>) EXCEPT !.fields = fields])
    /\ storage = NoStorage
    /\ \E projectFields \in SeqsUpTo(Chars, MaxReqLen) :
        request = Request(<<>>, projectFields, <<>>)
    /\ InitCommon

NextProject ==
    \/ CheckAndGetSites
    \/ CheckAndGetChargingStation
    \/ CheckAndGetUserSites

SpecProject == InitProject /\ [][NextProject]_vars

\* the static field list the last check projected, if it projected one
ProjectedOps == {"checkAndGetSitesAuthorizationFilters",
                 "checkAndGetChargingStationAuthorizationFilters",
                 "checkAndGetUserSitesAuthorizationFilters"}

Projected ==
    /\ outcome.op \in ProjectedOps
    /\ outcome.op = "checkAndGetSitesAuthorizationFilters" => outcome.ret

AuthFields ==
    CASE outcome.op = "checkAndGetChargingStationAuthorizationFilters" -> ChargingStationFields
      [] outcome.op = "checkAndGetUserSitesAuthorizationFilters" -> UserSitesFields
      [] OTHER -> table.rest.fields

RequestedFields == Range(Split(request.ProjectFields))

InRequest(f) == f \in RequestedFields

\* C11: the projected field list is the static list unchanged when the request
\* names no fields, and otherwise exactly the static fields the request names,
\* in static order; it never holds a field that is not statically granted.
C11_ProjectionIsStaticSubsequence ==
    Projected =>
        /\ Range(decision.projectFields) \subseteq Range(AuthFields)
        /\ request.ProjectFields = <<>> => decision.projectFields = AuthFields
        /\ request.ProjectFields # <<>>
              => decision.projectFields = SelectSeq(AuthFields, InRequest)

\* C11 witness: static fields [A, B, C], request "C|B", projected [B, C].
C11_Witness ==
    /\ outcome.op = "checkAndGetSitesAuthorizationFilters"
    /\ outcome.ret
    /\ table.rest.fields = <<ID("A"), ID("B"), ID("C")>>
    /\ request.ProjectFields = <<"C", "|", "B">>
    /\ decision.projectFields = <<ID("B"), ID("C")>>

(***************************************************************************)
(* Denial and flags on the listing and enrichment paths.                   *)
(***************************************************************************)
\* the grant evaluates to false: the static part denies, or the first
\* AND-group that does not pass has only implemented, denying alternatives
Denied(g) ==
    \/ ~g.authorized
    \/ \E m \in DOMAIN g.filters :
        /\ GroupDenies(g.filters[m])
        /\ \A h \in 1..(m - 1) : GroupPasses(g.filters[h])

\* the flag assignments of the last enrichment
AssignEvents == {k \in DOMAIN calls : calls[k].ev = "assign"}

CanEvents == {k \in DOMAIN calls : calls[k].ev = "can"}

\* the decision whose value assignment k stored: the last static lookup before it
DecisionOf(k) ==
    calls[CHOOSE c \in CanEvents : c < k /\ \A e \in CanEvents : e < k => e <= c]

\* the object assignment k wrote to: the root of the collection or a record
TargetOf(k) == IF calls[k].rec = 0 THEN records ELSE records.result[calls[k].rec]

AllEnrichOps == EnrichOps \cup {"addCarCatalogsAuthorizationActions"}

\* C12: a listing check whose grant evaluates to false returns without
\* throwing a decision with authorized = false, and an enrichment decision
\* whose grant evaluates to false stores false in its flag and does not throw.
C12_DenialIsNotAnException ==
    /\ (outcome.op = "checkAndGetListAuthorizationFilters" /\ Denied(LastGrant))
          => outcome.err = "none" /\ ~decision.authorized /\ ~outcome.ret
    /\ outcome.op \in AllEnrichOps =>
          /\ \A k \in AssignEvents :
                Denied(Can(table, DecisionOf(k).name, DecisionOf(k).action))
                    => /\ HasFlag(TargetOf(k), calls[k].name)
                       /\ ~TargetOf(k).flags[calls[k].name]
          /\ outcome.err # "none" =>
                ~Denied(Can(table, calls[Len(calls)].name, calls[Len(calls)].action))
                    \/ calls[Len(calls)].ev # "can"

\* C12 witness: an issuer user whose UPDATE decision is denied by a dynamic
\* filter and whose DELETE decision is denied statically has been enriched
\* with canUpdate = false and canDelete = false, and nothing was thrown.
C12_Witness ==
    /\ outcome.op = "addUsersAuthorizations"
    /\ outcome.err = "none"
    /\ Len(records.result) >= 1
    /\ records.result[1].issuer
    /\ Can(table, "USER", "UPDATE") = Grant(TRUE, <<ArrayGroup(<<"DenyA">>)>>)
    /\ ~Can(table, "USER", "DELETE").authorized
    /\ HasFlag(records.result[1], "canUpdate") /\ ~records.result[1].flags["canUpdate"]
    /\ HasFlag(records.result[1], "canDelete") /\ ~records.result[1].flags["canDelete"]

(***************************************************************************)
(* Failing storage: the scope checks with one storage lookup that fails.   *)
(***************************************************************************)
StorageLookups == {"getSites", "getUserSites.siteAdmin", "getUserSites.siteOwner",
                   "getAssets"}

InitFail ==
    /\ role \in UserRole
    /\ orgActive \in BOOLEAN
    /\ table = UniformTable(Grant(TRUE, <<>>))
    /\ \E assigned \in SiteLists, admin \in SiteLists, owner \in SiteLists,
          assets \in InjSeqsUpTo(AssetIDs, MaxAssets), lookup \in StorageLookups :
        /\ Len(assigned) + Len(admin) + Len(owner) <= MaxScope
        /\ storage = [NoStorage EXCEPT !.assignedSites = assigned, !.adminSites = admin,
                                       !.ownerSites = owner, !.assets = assets,
                                       !.failing = {lookup}]
    /\ \E assetIDs \in SeqsUpTo(AssetIDs, 1) : request = Request(<<>>, <<>>, assetIDs)
    /\ InitCommon

NextFail ==
    \/ CheckAssignedSites
    \/ CheckAssignedSiteAdminsAndOwners
    \/ CheckAndGetChargingStation
    \/ CheckAndGetUserSites
    \/ CheckAssignSiteAreaAssets

SpecFail == InitFail /\ [][NextFail]_vars

\* the lookups of the last check that hit a failing storage call
FailedLookups == {k \in StorageEvents : calls[k].name \in storage.failing}

\* C13: when a storage lookup of a scope check fails, the check ends with the
\* storage's failure (not with a returned decision, authorized or not), the
\* failed lookup was issued once and nothing was looked up after it; a check
\* ends with that failure only when one of its lookups failed.
C13_StorageFailurePropagates ==
    /\ FailedLookups # {} =>
          /\ outcome.err = "StorageError"
          /\ Cardinality(FailedLookups) = 1
          /\ \A k \in FailedLookups : k = Len(calls)
    /\ outcome.err = "StorageError" => FailedLookups # {}

\* C13 witness: the asset lookup of the asset assignment check failed, after
\* the site-admin lookup succeeded, and the check ended with the failure.
C13_Witness ==
    /\ outcome.op = "checkAssignSiteAreaAssetsAuthorizationFilters"
    /\ storage.failing = {"getAssets"}
    /\ Len(calls) = 2
    /\ calls[1].name = "getUserSites.siteAdmin"
    /\ calls[2].name = "getAssets"
    /\ outcome.err = "StorageError"

(***************************************************************************)
(* Repeated checks: the first check of a behaviour is remembered and every *)
(* later check is made on the same actor, table, storage and request.      *)
(***************************************************************************)
InitTwice ==
    /\ role \in UserRole
    /\ orgActive \in BOOLEAN
    /\ \E g \in EnrichGrants : table = UniformTable(g)
    /\ \E assigned \in SiteLists, admin \in SiteLists, owner \in SiteLists :
        /\ Len(assigned) + Len(admin) + Len(owner) <= MaxScope
        /\ storage = [NoStorage EXCEPT !.assignedSites = assigned,
                                       !.adminSites = admin, !.ownerSites = owner]
    /\ \E siteID \in {<<>>, <<"B">>} : request = Request(siteID, siteID, <<>>)
    /\ decision = NewDecision(0, FALSE, <<>>)
    /\ outcome = [op |-> "none", arg |-> "", err |-> "none", ret |-> FALSE]
    /\ calls = <<>>
    /\ records = <<>>
    /\ firstRun = [NoRun EXCEPT !.op = "none"]
    /\ inflight = <<>>
    /\ billing = <<>>

NextTwice ==
    \/ CheckAndGetSites
    \/ CheckAndGetUser
    \/ CheckAssignedSites
    \/ CheckAndGetUserSites

SpecTwice == InitTwice /\ [][NextTwice]_vars

\* the last check is the check the behaviour began with, made again
SameAsFirst == firstRun.op = outcome.op /\ firstRun.arg = outcome.arg

Procs == {1, 2}

Idle == [pc |-> "idle", entity |-> "", st |-> Start(NewDecision(0, FALSE, <<>>), 0),
         groups |-> <<>>, g |-> 0, i |-> 0, authorized |-> FALSE]

\* the mutant of OwnDecision that starts from the decision object of the other
\* check when that check has begun
OtherDecision(p) ==
    IF inflight[3 - p].pc # "idle" THEN inflight[3 - p].st.d
    ELSE NewDecision(p, FALSE, <<>>)

\* const authorizationFilters = { filters: {}, dataSources: new Map(), ... }
\* (lines 112-117): an object of this call, with a Map of this call
OwnDecision(p) == NewDecision(p, FALSE, <<>>)

\* the check is called and runs up to await Authorizations.can(...)
Begin(p) ==
    /\ inflight[p].pc = "idle"
    /\ \E entity \in {"SITES", "USERS"} :
        inflight' = [inflight EXCEPT ![p] =
                        [Idle EXCEPT !.pc = "can", !.entity = entity,
                                     !.st = Start(OwnDecision(p), 0)]]
    /\ UNCHANGED <<role, orgActive, table, storage, request, decision, outcome, calls,
                   records, firstRun, billing>>

\* the first iteration of the outer loop begins (lines 793-798)
EnterGroup(c, g) ==
    [c EXCEPT !.pc = "filter", !.g = g, !.i = 1, !.authorized = FALSE,
              !.st.d.authorized = FALSE]

\* processDynamicFilters has returned: lines 835-840, and the check returns
Return(c, authResult) ==
    [c EXCEPT !.pc = "done", !.st = EndCanPerform(c.st, authResult, request)]

\* Authorizations.can has answered (lines 829-833), up to the first await of
\* processDynamicFilters
AfterCan(c) ==
    LET authResult == Can(table, c.entity, "LIST")
        c1 == [c EXCEPT !.st = [LogCan(c.st, c.entity, "LIST") EXCEPT
                                    !.d.authorized = authResult.authorized],
                        !.groups = authResult.filters]
    IN IF ~authResult.authorized THEN [c1 EXCEPT !.pc = "done", !.st.ret = FALSE]
       ELSE IF isEmptyArray(authResult.filters) THEN Return(c1, authResult)
       ELSE EnterGroup(c1, 1)

CanAnswers(p) ==
    /\ inflight[p].pc = "can"
    /\ inflight' = [inflight EXCEPT ![p] = AfterCan(inflight[p])]
    /\ UNCHANGED <<role, orgActive, table, storage, request, decision, outcome, calls,
                   records, firstRun, billing>>

\* the alternative c.i of group c.g has been processed with st2 (line 813) and
\* the loops go on up to the next await (lines 814-821)
AfterAlternative(c, st2) ==
    LET authorized == c.authorized \/ st2.d.authorized
        c1 == [c EXCEPT !.st = st2, !.authorized = authorized]
        c2 == [c1 EXCEPT !.st.d.authorized = authorized]
    IN IF c.i < Len(GroupAlts(c.groups[c.g])) THEN [c1 EXCEPT !.i = c.i + 1]
       ELSE IF ~authorized \/ c.g = Len(c.groups)
            THEN Return(c2, Can(table, c.entity, "LIST"))
       ELSE EnterGroup(c2, c.g + 1)

\* DynamicAuthorizationFactory.getDynamicFilter has answered with st1 (lines
\* 801-813)
AfterGetDynamicFilter(c, st1) ==
    LET f == GroupAlts(c.groups[c.g])[c.i]
    IN IF ~Registry[f].impl THEN [c EXCEPT !.pc = "done", !.st = Throw(st1)]
       ELSE AfterAlternative(c, processFilter(st1, f, c.g, request))

FilterAnswers(p) ==
    /\ inflight[p].pc = "filter"
    /\ inflight' =
          [inflight EXCEPT ![p] =
              AfterGetDynamicFilter(
                  inflight[p],
                  getDynamicFilter(inflight[p].st,
                                   GroupAlts(inflight[p].groups[inflight[p].g])[inflight[p].i],
                                   inflight[p].g))]
    /\ UNCHANGED <<role, orgActive, table, storage, request, decision, outcome, calls,
                   records, firstRun, billing>>

InitConcurrent ==
    /\ role = "BASIC"
    /\ orgActive = TRUE
    /\ \E g \in Grants : table = UniformTable(g)
    /\ storage = NoStorage
    /\ request = NoRequest
    /\ decision = NewDecision(0, FALSE, <<>>)
    /\ outcome = [op |-> "none", arg |-> "", err |-> "none", ret |-> FALSE]
    /\ calls = <<>>
    /\ records = <<>>
    /\ firstRun = NoRun
    /\ inflight = [p \in Procs |-> Idle]
    /\ billing = <<>>

NextConcurrent ==
    \E p \in Procs :
        \/ Begin(p)
        \/ CanAnswers(p)
        \/ FilterAnswers(p)

SpecConcurrent == InitConcurrent /\ [][NextConcurrent]_vars

\* the check of p made alone, in one piece
Alone(p) == checkAndGetListAuthorizationFilters(p, table, inflight[p].entity, request)

\* C15: a list check that ran interleaved with another one ends exactly as it
\* would have ended alone: same error and return value, same decision
\* (authorized, filters, projectFields, dataSources entries) and the same
\* collaborator calls, so it saw nothing the other check wrote.
C15_ConcurrentChecksAreIsolated ==
    \A p \in Procs :
        inflight[p].pc = "done" =>
            /\ inflight[p].st.err = Alone(p).err
            /\ inflight[p].st.ret = Alone(p).ret
            /\ inflight[p].st.d = Alone(p).d
            /\ inflight[p].st.log = Alone(p).log

\* C15 witness: both checks are done, the second one began while the first
\* one was between two filters, each loaded its data source into its own Map.
C15_Witness ==
    /\ inflight[1].pc = "done" /\ inflight[2].pc = "done"
    /\ inflight[1].st.d.dataSources = [id |-> 1, entries |-> {"AssignedSites"}]
    /\ inflight[2].st.d.dataSources = [id |-> 2, entries |-> {"AssignedSites"}]
    /\ Len(inflight[1].groups) = 2
    /\ inflight[1].st.d.authorized

(***************************************************************************)
(* Which decision each capability flag comes from.                         *)
(***************************************************************************)
\* the action a capability flag is named after
OwnAction(flag) ==
    CASE flag = "canRead" -> "READ"
      [] flag = "canUpdate" -> "UPDATE"
      [] flag = "canDelete" -> "DELETE"

\* what the decision on a grant returns when it does not throw
GrantResult(g) == g.authorized /\ \A m \in DOMAIN g.filters : GroupPasses(g.filters[m])

\* the flags of issuer records of the given entity types are those of their
\* own action on their own entity type
OwnDecisionFlags(entities) ==
    (outcome.op \in EnrichOps /\ records.entity \in entities) =>
        \A i \in Enriched :
            LET r == records.result[i]
            IN r.issuer =>
                  \A f \in {"canRead", "canUpdate", "canDelete"} :
                      HasFlag(r, f) =>
                          r.flags[f] = GrantResult(Can(table, records.entity, OwnAction(f)))

\* C17 (as claimed): after enrichment, canRead, canUpdate and canDelete of an
\* issuer record are the results of the READ, UPDATE and DELETE decisions on
\* the record's own entity type, for every entity type.
C17_FlagFromOwnActionAndEntity == OwnDecisionFlags(EnrichedEntities)

\* C18 (as claimed): an enrichment step leaves the decision object it was
\* handed with the authorized, filters and projectFields it had before the
\* call.
C18_EnrichmentLeavesDecision ==
    [][outcome'.op \in AllEnrichOps =>
          /\ decision'.authorized = decision.authorized
          /\ decision'.filters = decision.filters
          /\ decision'.projectFields = decision.projectFields]_vars

(***************************************************************************)
(* Scope lookups and the dataSources Map of the decision.                  *)
(***************************************************************************)
\* the lookups of the last call that fetched the scope `name` from storage
LookupsOf(name) == {k \in StorageEvents : calls[k].name = name}

\* C19 (as claimed): in one check every scope is fetched from storage at most
\* once, and a scope that was fetched is afterwards held by the dataSources
\* Map of the check's decision, where the next resolver would find it.
C19_ScopeFetchedOncePerDecision ==
    outcome.err = "none" =>
        \A name \in StorageLookups :
            /\ Cardinality(LookupsOf(name)) <= 1
            /\ LookupsOf(name) # {} => name \in decision.dataSources.entries

(***************************************************************************)
(* The scope of site admins and site owners.                               *)
(***************************************************************************)
\* no element occurs twice in s
NoDuplicates(s) == \A i, j \in DOMAIN s : s[i] = s[j] => i = j

\* C21: for a non-admin actor with the organization component active, the
\* scope checkAssignedSiteAdminsAndOwners resolves is the union of the sites
\* the actor administers and the sites the actor owns: when no site ID is
\* requested the siteIDs filter holds exactly those IDs, each once; the
\* decision is authorized exactly when the filter is not empty, and an actor
\* with no admin and no owner site is denied without any filter.
C21_AdminsAndOwnersUnion ==
    (outcome.op \in AdminsAndOwnersOps /\ NonAdminScoped) =>
        LET siteIDs == FilterOf(decision, "siteIDs")
            union   == Range(storage.adminSites) \cup Range(storage.ownerSites)
        IN /\ outcome.err = "none"
           /\ Range(siteIDs) \subseteq union
           /\ (outcome.op \notin RequestedOps \/ request.SiteID = <<>>)
                 => Range(siteIDs) = union /\ NoDuplicates(siteIDs)
           /\ decision.authorized <=> ~isEmptyArray(siteIDs)
           /\ union = {} => ~decision.authorized /\ ~HasFilter(decision, "siteIDs")

\* C21 witness: the actor administers site A and owns site A and nothing
\* else; the filter holds A once and the decision is authorized.
C21_Witness ==
    /\ outcome.op = "checkAssignedSiteAdminsAndOwners"
    /\ NonAdminScoped
    /\ storage.adminSites = <<ID("A")>>
    /\ storage.ownerSites = <<ID("A")>>
    /\ request.SiteID = <<>>
    /\ decision.filters["siteIDs"] = <<ID("A")>>
    /\ decision.authorized

AssetsChecked == outcome.op = "checkAssignSiteAreaAssetsAuthorizationFilters"

\* the actor is site admin of the site area's site
SiteAdminOfTarget == Includes(storage.adminSites, storage.siteArea.siteID)

\* C23: in the asset assignment check an actor whose role is not ADMIN and who
\* is not site admin of the site area's site is denied whatever assets the
\* request names, and the assets of the site are not looked up; the asset
\* lookup is only ever issued after the site-admin lookup, for a site admin of
\* the site; an ADMIN is authorized without any storage lookup.
C23_SiteAdminBeforeAssets ==
    AssetsChecked =>
        /\ outcome.err = "none"
        /\ (role # "ADMIN" /\ ~SiteAdminOfTarget)
              => ~decision.authorized /\ LookupsOf("getAssets") = {}
        /\ \A k \in LookupsOf("getAssets") :
              /\ role # "ADMIN" /\ SiteAdminOfTarget
              /\ \E j \in LookupsOf("getUserSites.siteAdmin") : j < k
        /\ role = "ADMIN" => decision.authorized /\ StorageEvents = {}

\* C23 witness: a BASIC actor, site admin of site B only, asks to assign
\* asset A to a site area of site A and is denied, the site-admin lookup being
\* the only storage call.
C23_Witness ==
    /\ AssetsChecked
    /\ role = "BASIC"
    /\ storage.adminSites = <<ID("B")>>
    /\ storage.siteArea.siteID = ID("A")
    /\ request.assetIDs = <<ID("A")>>
    /\ ~decision.authorized
    /\ Len(calls) = 1 /\ calls[1].name = "getUserSites.siteAdmin"

\* C27: in the asset assignment check a site admin of the site area's site
\* whose role is not ADMIN and whose request names no asset is denied, and the
\* assets of the site are not looked up.
C27_EmptyAssetListDenied ==
    (AssetsChecked /\ role # "ADMIN" /\ SiteAdminOfTarget /\ isEmptyArray(request.assetIDs))
        => /\ outcome.err = "none"
           /\ ~decision.authorized
           /\ LookupsOf("getAssets") = {}

\* C27 witness: a BASIC site admin of site A sends no asset ID for a site area
\* of site A that has asset A assigned; denied after the site-admin lookup only.
C27_Witness ==
    /\ AssetsChecked
    /\ role = "BASIC"
    /\ storage.adminSites = <<ID("A")>>
    /\ storage.siteArea.siteID = ID("A")
    /\ storage.assets = <<ID("A")>>
    /\ request.assetIDs = <<>>
    /\ ~decision.authorized
    /\ Len(calls) = 1 /\ calls[1].name = "getUserSites.siteAdmin"

(***************************************************************************)
(* Enrichment of records that are not issuer.                              *)
(***************************************************************************)
\* the entity types whose enrichment tests record.issuer
IssuerTestedEntities == {"SITE", "SITE_AREA", "USER", "TAG", "COMPANY"}

\* C24: while a collection of sites, site areas, users, tags or companies is
\* enriched, no collaborator is called for a record with issuer = false (no
\* static table lookup, no filter resolved or invoked, no data source loaded,
\* no storage call); and enriching users that are all non-issuers, which sets
\* no root flag, calls nothing at all and leaves the decision object as it
\* was handed in.
C24_NonIssuerRunsNoDecision ==
    [][(outcome'.op \in EnrichOps /\ records.entity \in IssuerTestedEntities) =>
          /\ \A i \in DOMAIN records.result :
                ~records.result[i].issuer =>
                    \A k \in DOMAIN calls' : calls'[k].rec # i
          /\ (/\ outcome'.op = "addUsersAuthorizations"
              /\ \A i \in DOMAIN records.result : ~records.result[i].issuer)
                 => calls' = <<>> /\ decision' = decision /\ outcome'.err = "none"]_vars

\* C24 witness: two users, the first not issuer and the second issuer, have
\* been enriched; the first has the read-only flags and every collaborator
\* call was made for the second.
C24_Witness ==
    /\ outcome.op = "addUsersAuthorizations"
    /\ outcome.err = "none"
    /\ Len(records.result) = 2
    /\ ~records.result[1].issuer /\ records.result[2].issuer
    /\ records.result[1].flags["canRead"] /\ ~records.result[1].flags["canUpdate"]
    /\ calls # <<>>
    /\ \A k \in DOMAIN calls : calls[k].rec = 2

\* the last call raised the error of processDynamicFilters for a filter
\* reference the factory does not know (lines 802-809)
RaisedForMissingFilter ==
    /\ outcome.op \in CombinatorOps
    /\ outcome.err = "AppAuthError"
    /\ calls # <<>>
    /\ calls[Len(calls)].ev = "getDynamicFilter"
    /\ ~Registry[calls[Len(calls)].name].impl

\* C26 (as claimed): when processDynamicFilters raises the error for an
\* unresolved filter reference, the decision object the caller holds has
\* authorized = false.
C26_DeniedWhenMissingFilterRaises ==
    RaisedForMissingFilter => ~decision.authorized

(***************************************************************************)
(* StripeBillingIntegration.  billing holds the instance (stripe: whether  *)
(* this.stripe is set; secretKey: settings.secretKey; the settings         *)
(* immediateBillingAllowed and liveMode), the Stripe account and the       *)
(* tenant's data the instance talks to (keyAnswer, failing, invoice,       *)
(* finalizedAs, pages), the transaction handed in (transactionOK,          *)
(* customerID), the number n of methods called so far, and two history     *)
(* fields: validated (a key validation of this instance has succeeded)     *)
(* and failed (a checkConnection of this instance has thrown).  A method   *)
(* is evaluated on [b, log, err, ret, charge]: b the billing state, log    *)
(* the calls made to Stripe and to the other collaborators, in order, err  *)
(* the exception in flight, ret the value returned, charge the last result *)
(* of _chargeStripeInvoice.                                                *)
(***************************************************************************)
BillingStart(b) == [b |-> b, log |-> <<>>, err |-> "none", ret |-> "", charge |-> ""]

BillingLog(bs, name) == [bs EXCEPT !.log = Append(@, name)]

ThrowBackendError(bs) == [bs EXCEPT !.err = "BackendError"]

\* a call to the Stripe SDK or to the billing storage: it rejects when the
\* environment makes this call fail
StripeCall(bs, name) ==
    IF name \in bs.b.failing
    THEN [BillingLog(bs, name) EXCEPT !.err = "StripeError"]
    ELSE BillingLog(bs, name)

\* Logging.logError, awaited in the catch blocks
LogError(bs) == BillingLog([bs EXCEPT !.err = "none"], "Logging.logError")

\* Cypher.decrypt (line 63): nothing comes out of a missing secret key
Decrypt(secretKey) == IF secretKey = "" THEN "" ELSE "clear"

\* new Stripe(secretKey) (lines 73-75): this.stripe is set
NewStripe(b) == [b EXCEPT !.stripe = TRUE]

\* the answer of stripe.customers.list (lines 85-112)
KeyValidated(bs) ==
    IF bs.b.keyAnswer = "list" THEN [bs EXCEPT !.b.validated = TRUE]
    ELSE ThrowBackendError([bs EXCEPT !.b.failed = TRUE])

\* checkConnection (lines 59-114)
checkConnection(bs) ==
    IF ~bs.b.stripe
    THEN LET key == Decrypt(bs.b.secretKey)
             bs1 == [bs EXCEPT !.b.secretKey = key]
         IN IF key = "" THEN ThrowBackendError([bs1 EXCEPT !.b.failed = TRUE])
            ELSE KeyValidated(BillingLog([bs1 EXCEPT !.b = NewStripe(bs1.b)],
                                         "customers.list"))
    ELSE bs

InvoiceStatus == {"draft", "open", "paid", "uncollectible", "void"}

\* shrinkStripeFailure (lines 546-566): the error becomes a value
shrinkStripeFailure(bs) == [bs EXCEPT !.err = "none", !.charge = "failed"]

\* the return at the end of _chargeStripeInvoice (lines 540-543)
ChargeSucceeded(bs) == [bs EXCEPT !.charge = "succeeded"]

\* stripe.invoices.pay has answered (lines 533-537)
AfterPay(bs) ==
    IF bs.err # "none" THEN shrinkStripeFailure(bs)
    ELSE ChargeSucceeded([bs EXCEPT !.b.invoice = "paid"])

\* the mutant of PayWhenOpen that pays whatever the status
PayAlways(bs) ==
    IF bs.err # "none" THEN bs ELSE AfterPay(StripeCall(bs, "invoices.pay"))

\* lines 529-537: the invoice is paid when its status is open
PayWhenOpen(bs) ==
    IF bs.err # "none" THEN bs
    ELSE IF bs.b.invoice = "open" THEN AfterPay(StripeCall(bs, "invoices.pay"))
    ELSE ChargeSucceeded(bs)

\* stripe.invoices.finalizeInvoice has answered (lines 526-530)
AfterFinalize(bs) ==
    IF bs.err # "none" THEN bs
    ELSE PayWhenOpen([bs EXCEPT !.b.invoice = bs.b.finalizedAs])

\* stripe.invoices.retrieve has answered (lines 522-539)
AfterRetrieve(bs) ==
    IF bs.err # "none" THEN bs
    ELSE IF bs.b.invoice # "paid"
         THEN IF bs.b.invoice = "draft"
              THEN AfterFinalize(StripeCall(bs, "invoices.finalizeInvoice"))
              ELSE PayWhenOpen(bs)
    ELSE ChargeSucceeded(bs)

\* _chargeStripeInvoice (lines 520-544)
chargeStripeInvoice(bs) == AfterRetrieve(StripeCall([bs EXCEPT !.charge = ""], "invoices.retrieve"))

\* synchronizeAsBillingInvoice has answered (lines 503-508)
AfterSynchronize(bs) ==
    IF bs.err # "none" THEN bs
    ELSE IF bs.charge # "succeeded" THEN StripeCall(bs, "saveLastPaymentFailure")
    ELSE bs

\* _chargeStripeInvoice has answered (lines 502-503)
AfterCharge(bs) ==
    IF bs.err # "none" THEN bs
    ELSE AfterSynchronize(StripeCall(bs, "synchronizeAsBillingInvoice"))

\* the end of chargeInvoice: the invoice is returned (line 508), a rejection
\* leaves as a BackendError (lines 509-517)
ChargeInvoiceEnd(bs) ==
    IF bs.err # "none" THEN ThrowBackendError(bs) ELSE [bs EXCEPT !.ret = "invoice"]

\* chargeInvoice after its connection check (lines 501-517)
ChargeChecked(bs) ==
    IF bs.err # "none" THEN bs
    ELSE ChargeInvoiceEnd(AfterCharge(chargeStripeInvoice(bs)))

\* chargeInvoice (lines 498-518)
chargeInvoice(bs) == ChargeChecked(checkConnection(bs))

\* synchronizeAsBillingInvoice has answered in billInvoiceItem (lines
\* 911-917)
AfterReplication(bs) ==
    IF bs.err # "none" THEN bs
    ELSE IF bs.charge = "failed" THEN StripeCall(bs, "saveLastPaymentFailure")
    ELSE bs

\* the payment attempt has ended (lines 896-911): a rejection is logged and
\* dropped
AfterPaymentAttempt(bs) ==
    IF bs.err # "none"
    THEN AfterReplication(StripeCall(LogError(bs), "synchronizeAsBillingInvoice"))
    ELSE AfterReplication(StripeCall(bs, "synchronizeAsBillingInvoice"))

\* lines 893-911, the invoice being at hand
WithInvoice(bs) ==
    IF bs.err # "none" THEN bs
    ELSE IF bs.b.immediateBillingAllowed THEN AfterPaymentAttempt(chargeStripeInvoice(bs))
    ELSE AfterReplication(StripeCall(bs, "synchronizeAsBillingInvoice"))

\* _createStripeInvoice has answered (lines 337-352, 889-892)
AfterCreateInvoice(bs) ==
    IF bs.err # "none" THEN bs ELSE WithInvoice([bs EXCEPT !.b.invoice = "draft"])

\* _createStripeInvoiceItem has answered (lines 877-892); hadDraft: the
\* lookup of the latest draft invoice found one
AfterItem(bs, hadDraft) ==
    IF bs.err # "none" THEN bs
    ELSE IF ~hadDraft THEN AfterCreateInvoice(StripeCall(bs, "invoices.create"))
    ELSE WithInvoice(bs)

\* _getLatestDraftInvoice has answered (lines 811-818, 875-877)
AfterDraftLookup(bs) ==
    IF bs.err # "none" THEN bs
    ELSE AfterItem(StripeCall(bs, "invoiceItems.create"), bs.b.invoice = "draft")

\* billInvoiceItem (lines 870-918)
billInvoiceItem(bs) ==
    AfterDraftLookup(StripeCall([bs EXCEPT !.charge = ""], "invoices.list"))

\* the return of billTransaction (lines 826-831)
Billed(bs) == IF bs.err # "none" THEN bs ELSE [bs EXCEPT !.ret = "BILLED"]

\* billTransaction (lines 820-832)
billTransaction(bs) == Billed(billInvoiceItem(bs))

\* stripe.customers.retrieve has answered in getStripeCustomer (lines
\* 1066-1089): a rejection becomes a BackendError, otherwise the customer is
\* there and the transaction is billed (lines 787-789)
AfterRetrieveCustomer(bs) ==
    IF bs.err # "none" THEN ThrowBackendError(bs) ELSE billTransaction(bs)

\* the try block of stopTransaction (lines 783-793)
TryBill(bs) ==
    IF bs.b.customerID # ""
    THEN AfterRetrieveCustomer(StripeCall(bs, "customers.retrieve"))
    ELSE IF bs.b.liveMode THEN [bs EXCEPT !.err = "Error"]
    ELSE bs

\* the mutant of CatchAndLog that lets the error leave
CatchNothing(bs) == bs

\* the catch block of stopTransaction (lines 794-805)
CatchAndLog(bs) == IF bs.err # "none" THEN LogError(bs) ELSE bs

\* the returns of stopTransaction (lines 789, 806-808)
StopResult(bs) ==
    IF bs.err # "none" \/ bs.ret = "BILLED" THEN bs ELSE [bs EXCEPT !.ret = "UNBILLED"]

\* stopTransaction after its connection check (lines 782-809)
StopChecked(bs) ==
    IF bs.err # "none" THEN bs
    ELSE IF ~bs.b.transactionOK THEN ThrowBackendError(bs)
    ELSE StopResult(CatchAndLog(TryBill(bs)))

\* stopTransaction (lines 778-809)
stopTransaction(bs) == StopChecked(checkConnection(bs))

\* number of events on a page that has a successor: the limit of a request,
\* which is StripeBillingIntegration.STRIPE_MAX_LIST = 100 in the program
PageLimit == 2
\* number of pages of events the Stripe account holds
MaxPages == 2
\* number of methods called on one instance in one behaviour
MaxCalls == 2

\* the objects the events of the account are about
StripeEvents ==
    {[object |-> "customer", id |-> "cus_1", customer |-> ""],
     [object |-> "customer", id |-> "cus_2", customer |-> ""],
     [object |-> "invoice", id |-> "in_1", customer |-> "cus_1"],
     [object |-> "invoice", id |-> "in_2", customer |-> "cus_2"]}

\* the sequences of exactly n elements of S
SeqsOfLen(S, n) == [1..n -> S]

\* the event lists an account can hold, cut into pages of PageLimit
\* events, the last one holding what is left
EventPages ==
    UNION {{full \o <<last>> : full \in SeqsOfLen(SeqsOfLen(StripeEvents, PageLimit), k),
                               last \in UNION {SeqsOfLen(StripeEvents, m) : m \in 1..PageLimit}} :
           k \in 0..(MaxPages - 1)}

\* the position of the first page that holds an object with this ID, 0 if
\* there is none
PageOf(pages, id) ==
    LET holding == {i \in 1..Len(pages) : \E j \in 1..Len(pages[i]) : pages[i][j].id = id}
    IN IF holding = {} THEN 0 ELSE CHOOSE i \in holding : \A k \in holding : i <= k

\* the answer of stripe.events.list(request) (lines 275, 312): the first page,
\* or the page after the one the cursor points into; has_more is a field of
\* this answer
EventsList(pages, req) ==
    LET at == IF req.starting_after = "" THEN 1
              ELSE PageOf(pages, req.starting_after) + 1
    IN [data |-> IF at \in 1..Len(pages) THEN pages[at] ELSE <<>>,
        has_more |-> at < Len(pages)]

\* the request of both methods (lines 266-270, 305-309): it has no has_more
\* and no starting_after
EventListParams == [starting_after |-> "", has_more |-> FALSE]

RECURSIVE CollectCustomerIDs(_, _)
\* the for loop of getUpdatedUserIDsInBilling (lines 276-284)
CollectCustomerIDs(data, collected) ==
    IF data = <<>> THEN collected
    ELSE LET evt == Head(data)
         IN CollectCustomerIDs(Tail(data),
                IF evt.object = "customer" /\ evt.id # "" /\ ~Includes(collected, evt.id)
                THEN Append(collected, evt.id) ELSE collected)

RECURSIVE CollectInvoiceIDs(_, _, _)
\* the for loop of getUpdatedInvoiceIDsInBilling (lines 313-329); billingUser
\* is the customer ID of the user given, "" when no user is given
CollectInvoiceIDs(data, collected, billingUser) ==
    IF data = <<>> THEN collected
    ELSE LET evt == Head(data)
         IN CollectInvoiceIDs(Tail(data),
                IF /\ evt.object = "invoice" /\ evt.id # "" /\ ~Includes(collected, evt.id)
                   /\ (billingUser # "" => billingUser = evt.customer)
                THEN Append(collected, evt.id) ELSE collected,
                billingUser)

\* lines 285-287 and 330-332: the cursor is moved when the request has
\* has_more
NextRequest(req, collected) ==
    IF req.has_more
    THEN [req EXCEPT !.starting_after =
              IF collected = <<>> THEN "" ELSE collected[Len(collected)]]
    ELSE req

\* the condition of both do-while loops (lines 288, 333)
Again(req, events) == req.has_more

RECURSIVE ReadCustomerEvents(_, _, _)
\* the do-while loop of getUpdatedUserIDsInBilling (lines 274-288)
ReadCustomerEvents(bs, req, collected) ==
    LET called == StripeCall(bs, "events.list")
        events == EventsList(bs.b.pages, req)
        got == CollectCustomerIDs(events.data, collected)
    IN IF called.err # "none" THEN called
       ELSE IF Again(req, events)
            THEN ReadCustomerEvents(called, NextRequest(req, got), got)
       ELSE [called EXCEPT !.ret = got]

RECURSIVE ReadInvoiceEvents(_, _, _)
\* the do-while loop of getUpdatedInvoiceIDsInBilling (lines 311-333)
ReadInvoiceEvents(bs, req, collected) ==
    LET called == StripeCall(bs, "events.list")
        events == EventsList(bs.b.pages, req)
        got == CollectInvoiceIDs(events.data, collected, bs.b.billingUser)
    IN IF called.err # "none" THEN called
       ELSE IF Again(req, events)
            THEN ReadInvoiceEvents(called, NextRequest(req, got), got)
       ELSE [called EXCEPT !.ret = got]

\* getUpdatedUserIDsInBilling after its connection check (lines 273-289)
UserIDsChecked(bs) ==
    IF bs.err # "none" THEN bs ELSE ReadCustomerEvents(bs, EventListParams, <<>>)

\* getUpdatedUserIDsInBilling (lines 262-290)
getUpdatedUserIDsInBilling(bs) == UserIDsChecked(checkConnection(bs))

\* getUpdatedInvoiceIDsInBilling after its connection check (lines 296-334)
InvoiceIDsChecked(bs) ==
    IF bs.err # "none" THEN bs ELSE ReadInvoiceEvents(bs, EventListParams, <<>>)

\* getUpdatedInvoiceIDsInBilling (lines 292-335)
getUpdatedInvoiceIDsInBilling(bs) == InvoiceIDsChecked(checkConnection(bs))

(***************************************************************************)
(* Behaviours of one StripeBillingIntegration instance: the account, the   *)
(* settings and the transaction are chosen at the start and methods are    *)
(* called one after the other on the same instance.                        *)
(***************************************************************************)
\* a fresh instance (constructor, lines 44-57): this.stripe is not set
NewInstance ==
    [stripe |-> FALSE, secretKey |-> "encrypted", keyAnswer |-> "list",
     validated |-> FALSE, failed |-> FALSE, failing |-> {}, invoice |-> "none",
     finalizedAs |-> "open", immediateBillingAllowed |-> FALSE, liveMode |-> FALSE,
     transactionOK |-> TRUE, customerID |-> "", pages |-> <<>>, billingUser |-> "",
     n |-> 0]

\* what stripe.customers.list can answer to the key validation: a list, a
\* rejection, something that is no list
KeyAnswers == {"list", "error", "other"}

\* the calls of stopTransaction and chargeInvoice that can reject
FallibleCalls ==
    {"customers.retrieve", "invoices.list", "invoiceItems.create", "invoices.create",
     "invoices.retrieve", "invoices.finalizeInvoice", "invoices.pay",
     "synchronizeAsBillingInvoice", "saveLastPaymentFailure"}

\* at most one kind of call rejects in a behaviour
Failings == {{}} \cup {{name} : name \in FallibleCalls}

\* the variables of the authorization service, not used by the billing
InitNoAuthorization ==
    /\ role = "ADMIN"
    /\ orgActive = TRUE
    /\ table = UniformTable(Grant(FALSE, <<>>))
    /\ storage = NoStorage
    /\ request = NoRequest
    /\ decision = NewDecision(0, FALSE, <<>>)
    /\ outcome = [op |-> "none", err |-> "none", ret |-> "", charge |-> "",
                  before |-> NewInstance]
    /\ calls = <<>>
    /\ records = <<>>
    /\ firstRun = NoRun
    /\ inflight = <<>>

\* a method of the instance has run: its calls, its end and the instance it
\* leaves
FinishBilling(op, bs) ==
    /\ billing.n < MaxCalls
    /\ billing' = [bs.b EXCEPT !.n = @ + 1]
    /\ outcome' = [op |-> op, err |-> bs.err, ret |-> bs.ret, charge |-> bs.charge,
                   before |-> billing]
    /\ calls' = bs.log
    /\ UNCHANGED <<role, orgActive, table, storage, request, decision, records,
                   firstRun, inflight>>

CheckConnection == FinishBilling("checkConnection", checkConnection(BillingStart(billing)))

StopTransaction == FinishBilling("stopTransaction", stopTransaction(BillingStart(billing)))

ChargeInvoice == FinishBilling("chargeInvoice", chargeInvoice(BillingStart(billing)))

GetUpdatedUserIDsInBilling ==
    FinishBilling("getUpdatedUserIDsInBilling", getUpdatedUserIDsInBilling(BillingStart(billing)))

GetUpdatedInvoiceIDsInBilling ==
    FinishBilling("getUpdatedInvoiceIDsInBilling",
                  getUpdatedInvoiceIDsInBilling(BillingStart(billing)))

\* stopTransaction: every secret key, key answer, transaction, customer,
\* mode, setting, rejecting call and latest invoice of the customer
InitStop ==
    /\ InitNoAuthorization
    /\ \E secretKey \in {"", "encrypted"}, keyAnswer \in KeyAnswers, failing \in Failings,
          transactionOK \in BOOLEAN, customerID \in {"", "cus_1"}, liveMode \in BOOLEAN,
          immediate \in BOOLEAN, invoice \in {"none", "draft"},
          finalizedAs \in {"open", "paid"} :
        billing = [NewInstance EXCEPT !.secretKey = secretKey, !.keyAnswer = keyAnswer,
                                      !.failing = failing, !.transactionOK = transactionOK,
                                      !.customerID = customerID, !.liveMode = liveMode,
                                      !.immediateBillingAllowed = immediate,
                                      !.invoice = invoice, !.finalizedAs = finalizedAs]

NextStop == CheckConnection \/ StopTransaction

SpecStop == InitStop /\ [][NextStop]_vars

\* chargeInvoice: every status of the invoice, every rejecting call
InitCharge ==
    /\ InitNoAuthorization
    /\ \E keyAnswer \in KeyAnswers, failing \in Failings, invoice \in InvoiceStatus,
          finalizedAs \in {"open", "paid"} :
        billing = [NewInstance EXCEPT !.keyAnswer = keyAnswer, !.failing = failing,
                                      !.invoice = invoice, !.finalizedAs = finalizedAs]

NextCharge == CheckConnection \/ ChargeInvoice

SpecCharge == InitCharge /\ [][NextCharge]_vars

\* the event lists: every account of up to MaxPages pages, with and without
\* a user given, the listing of events rejecting or not
InitEvents ==
    /\ InitNoAuthorization
    /\ \E pages \in EventPages, billingUser \in {"", "cus_1"},
          failing \in {{}, {"events.list"}} :
        billing = [NewInstance EXCEPT !.pages = pages, !.billingUser = billingUser,
                                      !.failing = failing]

NextEvents == GetUpdatedUserIDsInBilling \/ GetUpdatedInvoiceIDsInBilling

SpecEvents == InitEvents /\ [][NextEvents]_vars

\* the key validation of this instance would succeed or has been skipped
\* because this.stripe is set (lines 61, 85-112)
ConnectionPasses(b) == b.stripe \/ (Decrypt(b.secretKey) # "" /\ b.keyAnswer = "list")

\* C29 (as claimed): checkConnection never treats an unvalidated connection
\* as valid: once a call has failed, every later call on the same instance
\* fails too, and a call returns normally only on an instance whose key
\* validation has succeeded.
C29_ConnectionOnlyWhenValidated ==
    (outcome.op = "checkConnection")
        => /\ (outcome.before.failed => outcome.err # "none")
           /\ (outcome.err = "none" => billing.validated)

\* the calls whose rejection billInvoiceItem catches or turns into a value
\* (lines 533-537, 896-908)
CaughtInBilling == {"invoices.retrieve", "invoices.finalizeInvoice", "invoices.pay"}

\* the last call billed the transaction to its end: the invoice was
\* replicated and no call rejected outside the payment attempt
BillCompleted ==
    /\ Includes(calls, "synchronizeAsBillingInvoice")
    /\ \A i \in DOMAIN calls :
           calls[i] \in outcome.before.failing => calls[i] \in CaughtInBilling

PositionsOf(name) == {i \in DOMAIN calls : calls[i] = name}

\* the last method ran _chargeStripeInvoice on the invoice
Charged == outcome.op = "chargeInvoice" /\ PositionsOf("invoices.retrieve") # {}

\* C28: _chargeStripeInvoice reads the status of the invoice first; it
\* finalizes only a draft invoice; it pays only an open invoice, at most
\* once, and after the finalization if there is one; it neither finalizes nor
\* pays a paid invoice; a rejected payment is returned as succeeded = false
\* and is not thrown.
C28_ChargeFollowsInvoiceStatus ==
    (outcome.op = "chargeInvoice")
        => /\ \A i \in PositionsOf("invoices.finalizeInvoice") \cup PositionsOf("invoices.pay") :
                  \E j \in PositionsOf("invoices.retrieve") : j < i
           /\ PositionsOf("invoices.finalizeInvoice") # {}
                  => outcome.before.invoice = "draft"
           /\ PositionsOf("invoices.pay") # {}
                  => \/ outcome.before.invoice = "open"
                     \/ /\ outcome.before.invoice = "draft"
                        /\ outcome.before.finalizedAs = "open"
                        /\ PositionsOf("invoices.finalizeInvoice") # {}
                        /\ "invoices.finalizeInvoice" \notin outcome.before.failing
           /\ Cardinality(PositionsOf("invoices.pay")) <= 1
           /\ \A i \in PositionsOf("invoices.finalizeInvoice"), j \in PositionsOf("invoices.pay") :
                  i < j
           /\ outcome.before.invoice = "paid"
                  => PositionsOf("invoices.finalizeInvoice") \cup PositionsOf("invoices.pay") = {}
           /\ (PositionsOf("invoices.pay") # {} /\ "invoices.pay" \in outcome.before.failing)
                  => /\ outcome.charge = "failed"
                     /\ outcome.err = "none"
                     /\ Includes(calls, "saveLastPaymentFailure")

\* a draft invoice was finalized and its payment was rejected
C28_Witness ==
    /\ Charged
    /\ outcome.before.invoice = "draft"
    /\ PositionsOf("invoices.finalizeInvoice") # {}
    /\ PositionsOf("invoices.pay") # {}
    /\ outcome.charge = "failed"

\* the IDs of the objects of this kind on all the pages of the account, those
\* of one customer when a user is given
IDsOnPages(b, object, billingUser) ==
    {b.pages[i][j].id : <<i, j>> \in
        {<<i, j>> \in (1..MaxPages) \X (1..PageLimit) :
            /\ i \in DOMAIN b.pages
            /\ j \in DOMAIN b.pages[i]
            /\ b.pages[i][j].object = object
            /\ (billingUser # "" => b.pages[i][j].customer = billingUser)}}

\* C25 (as claimed): getUpdatedUserIDsInBilling and
\* getUpdatedInvoiceIDsInBilling read all the pages of events: every ID on any
\* page is returned, exactly once.
C25_AllPagesAreRead ==
    /\ (outcome.op = "getUpdatedUserIDsInBilling" /\ outcome.err = "none")
           => /\ Range(outcome.ret) = IDsOnPages(outcome.before, "customer", "")
              /\ NoDuplicates(outcome.ret)
    /\ (outcome.op = "getUpdatedInvoiceIDsInBilling" /\ outcome.err = "none")
           => /\ Range(outcome.ret) =
                     IDsOnPages(outcome.before, "invoice", outcome.before.billingUser)
              /\ NoDuplicates(outcome.ret)

====
